---- MODULE Spec2Model ----
(***************************************************************************)
(* Model of libnn: the fixable cell (misc/fixable.hxx), the topology graph *)
(* (topo/nn.hxx), the computation engine (ml/computation.hxx) and the      *)
(* forward evaluators built on it (ml/nn_func.hxx).                        *)
(*                                                                         *)
(* Base_t values are integers: the model uses only sums and products of    *)
(* small integers, which double represents exactly.  Neuron indices are    *)
(* 0-based as in the source; slot i of a vector is element i + 1 of the    *)
(* sequence modelling it.  A unique_ptr<neuron> is a sequence of length 0  *)
(* (NULL) or 1.  A `neuron &` held by a dendrite is modelled by the slot   *)
(* position of the neuron object it refers to.                             *)
(***************************************************************************)
EXTENDS Integers, Sequences, FiniteSets, TLC

VARIABLES
    cell,       \* a stand-alone misc::fixable<T>: [val, fix]
    last,       \* the last fixable operation: its arguments, the cell before, the error
    m_size,     \* topo::nn::m_size
    m_neurons,  \* topo::nn::m_neurons
    m_inputs,   \* topo::nn::m_inputs
    m_outputs,  \* topo::nn::m_outputs
    topo_op,    \* the last topology operation (its name)
    kind,       \* the evaluator class: "nn_func" or "forward"
    act,        \* the activation function Act_fn of the network
    m_results,  \* ml::computation::m_results
    m_reset,    \* ml::computation::m_reset
    ev,         \* the last evaluator operation and what it was seen to do
    m_features, \* model::feed_forward::m_features
    m_fixes,    \* ml::backpropagation::m_fixes
    m_slots,    \* ml::backpropagation::m_slots
    tr,         \* the last training call and what it was seen to do
    crit        \* the caller's criterion object, as its last call left it

vars == <<cell, last, m_size, m_neurons, m_inputs, m_outputs, topo_op,
          kind, act, m_results, m_reset, ev,
          m_features, m_fixes, m_slots, tr, crit>>

fixVars  == <<cell, last>>
topoVars == <<m_size, m_neurons, m_inputs, m_outputs, topo_op>>
evalVars == <<kind, act, m_results, m_reset, ev>>
trainVars == <<m_features, m_fixes, m_slots, tr, crit>>

-----------------------------------------------------------------------------
(* misc::fixable<T>                                                        *)

UNFIXED == 0
SOFTFIX == 1
HARDFIX == 2

FixModes == {UNFIXED, SOFTFIX, HARDFIX}

\* Largest value a test stores in a fixable cell
MaxVal == 2

Vals == 0..MaxVal

\* T(): the value-initialised T
DefaultT == 0

\* A cell and the error the operation raised ("none", "logic_error", ...)
Res(c, e) == [cell |-> c, err |-> e]

\* bool fixed() const
fixed_hard_only(c) == c.fix = HARDFIX

fixed(c) == c.fix # UNFIXED

\* const T & set(const T & val, bool override_fixed): the switch falls
\* through from SOFTFIX to HARDFIX when override_fixed is false
set_nothrow(c, val, override_fixed) == Res([c EXCEPT !.val = val], "none")

set_raises(c, val, override_fixed) ==
    IF c.fix = UNFIXED THEN Res([c EXCEPT !.val = val, !.fix = SOFTFIX], "none")
    ELSE IF c.fix = SOFTFIX /\ override_fixed THEN Res([c EXCEPT !.val = val], "none")
    ELSE Res(c, "logic_error")

set(c, val, override_fixed) ==
    IF c.fix = UNFIXED THEN Res([c EXCEPT !.val = val], "none")
    ELSE IF c.fix = SOFTFIX /\ override_fixed THEN Res([c EXCEPT !.val = val], "none")
    ELSE Res(c, "logic_error")

\* void fix(fix_t mode)
fix_lowers(c, mode) == [c EXCEPT !.fix = mode]

fix(c, mode) == IF mode > c.fix THEN [c EXCEPT !.fix = mode] ELSE c

\* void fix(const T & val, bool override_fixed, fix_t mode): set, then fix
fix_val(c, val, override_fixed, mode) ==
    LET s == set(c, val, override_fixed)
    IN  IF s.err # "none" THEN s ELSE Res(fix(s.cell, mode), "none")

\* void reset(const T & val = T())
reset_all(c, val) == [val |-> val, fix |-> UNFIXED]

reset(c, val) == IF c.fix # HARDFIX THEN [val |-> val, fix |-> UNFIXED] ELSE c

-----------------------------------------------------------------------------
(* topo::nn<Base_t, Act_fn>: neurons, dendrites, the I/O layer lists       *)

\* neuron::type_t
INNER  == "INNER"
INPUT  == "INPUT"
OUTPUT == "OUTPUT"

Types == {INNER, INPUT, OUTPUT}

\* A network object: the four members of nn
NN(size, neurons, inputs, outputs) ==
    [m_size |-> size, m_neurons |-> neurons,
     m_inputs |-> inputs, m_outputs |-> outputs]

\* The vector (or list) with the n elements f[1] .. f[n], in order
RECURSIVE SeqOf(_, _)
SeqOf(f, n) == IF n = 0 THEN <<>> ELSE Append(SeqOf(f, n - 1), f[n])

\* size_t slot_cnt() const
slot_cnt(N) == Len(N.m_neurons)

\* size_t size() const
size(N) == N.m_size

\* Slot p holds a neuron (the unique_ptr is not NULL)
Occupied(N, p) == p \in 0..(Len(N.m_neurons) - 1) /\ N.m_neurons[p + 1] # <<>>

\* *m_neurons[p]
At(N, p) == N.m_neurons[p + 1][1]

\* The positions for_each_neuron visits
LiveSlots(N) == {p \in 0..(Len(N.m_neurons) - 1) : N.m_neurons[p + 1] # <<>>}

\* neuron(size_t index, type_t type, Args... args): no dendrites
neuron(index, type) == [index |-> index, type |-> type, dendrites |-> <<>>]

\* neuron::get_dendrite_iter: the place of the first dendrite whose source
\* is the neuron object at src, or the end of the list
get_dendrite_iter(n, src) ==
    LET hits == {k \in 1..Len(n.dendrites) : n.dendrites[k].source = src}
    IN  IF hits = {} THEN Len(n.dendrites) + 1
        ELSE CHOOSE k \in hits : \A j \in hits : k <= j

\* neuron::add_dendrite
add_dendrite(n, src, w) ==
    [n EXCEPT !.dendrites = Append(@, [weight |-> w, source |-> src])]

\* neuron::remove_dendrite
remove_dendrite(n, k) ==
    [n EXCEPT !.dendrites = SubSeq(@, 1, k - 1) \o SubSeq(@, k + 1, Len(@))]

set_dendrite_always_adds(n, src, w) == add_dendrite(n, src, w)

\* neuron::set_dendrite
set_dendrite(n, src, w) ==
    LET k == get_dendrite_iter(n, src)
    IN  IF k = Len(n.dendrites) + 1 THEN add_dendrite(n, src, w)
        ELSE [n EXCEPT !.dendrites[k].weight = w]

\* neuron::unset_dendrite
unset_dendrite(n, src) ==
    LET k == get_dendrite_iter(n, src)
    IN  IF k = Len(n.dendrites) + 1 THEN n ELSE remove_dendrite(n, k)

\* neuron::minimise_dendrites
NonZero(d) == d.weight # 0

minimise_dendrites(n) == [n EXCEPT !.dendrites = SelectSeq(@, NonZero)]

\* nn::io_add (with io_resolve): push_back of the neuron's stored index
io_add_inner_too(N, n) ==
    IF n.type = OUTPUT THEN [N EXCEPT !.m_outputs = Append(@, n.index)]
    ELSE [N EXCEPT !.m_inputs = Append(@, n.index)]

io_add(N, n) ==
    IF n.type = INPUT THEN [N EXCEPT !.m_inputs = Append(@, n.index)]
    ELSE IF n.type = OUTPUT THEN [N EXCEPT !.m_outputs = Append(@, n.index)]
    ELSE N

\* nn::io_remove (with io_resolve): list::remove of the neuron's stored index
io_remove(N, n) ==
    LET Other(i) == i # n.index
    IN  IF n.type = INPUT THEN [N EXCEPT !.m_inputs = SelectSeq(@, Other)]
        ELSE IF n.type = OUTPUT THEN [N EXCEPT !.m_outputs = SelectSeq(@, Other)]
        ELSE N

\* nn::synapses_remove: every neuron unsets its dendrite from the neuron
\* object at p
synapses_remove(N, p) ==
    [N EXCEPT !.m_neurons =
        SeqOf([i \in 1..Len(N.m_neurons) |->
                  IF N.m_neurons[i] = <<>> THEN <<>>
                  ELSE <<unset_dendrite(N.m_neurons[i][1], p)>>],
              Len(N.m_neurons))]

\* nn::clear
clear(N) == NN(0, <<>>, <<>>, <<>>)

\* nn::add_neuron
add_neuron_by_size(N, type) ==
    LET n == neuron(Cardinality(LiveSlots(N)), type)
    IN  io_add([N EXCEPT !.m_neurons = Append(@, <<n>>), !.m_size = @ + 1], n)

add_neuron(N, type) ==
    LET n == neuron(Len(N.m_neurons), type)
    IN  io_add([N EXCEPT !.m_neurons = Append(@, <<n>>), !.m_size = @ + 1], n)

remove_neuron_keeps_synapses(N, p) ==
    LET n  == At(N, p)
        N1 == io_remove(N, n)
    IN  [N1 EXCEPT !.m_neurons[n.index + 1] = <<>>, !.m_size = @ - 1]

\* nn::remove_neuron, given the neuron object at p: the slot that is
\* vacated is the one the neuron's stored index names
remove_neuron(N, p) ==
    LET n  == At(N, p)
        N1 == synapses_remove(io_remove(N, n), p)
    IN  [N1 EXCEPT !.m_neurons[n.index + 1] = <<>>, !.m_size = @ - 1]

\* nn::set_neuron
set_neuron_keeps_io(N, index, type) ==
    LET cnt   == IF index < Len(N.m_neurons) THEN Len(N.m_neurons) ELSE index + 1
        grown == SeqOf([i \in 1..cnt |->
                           IF i <= Len(N.m_neurons) THEN N.m_neurons[i] ELSE <<>>],
                       cnt)
        G  == [N EXCEPT !.m_neurons = grown]
        N1 == IF grown[index + 1] # <<>>
              THEN synapses_remove(G, index)
              ELSE [G EXCEPT !.m_size = @ + 1]
        n  == neuron(index, type)
    IN  io_add([N1 EXCEPT !.m_neurons[index + 1] = <<n>>], n)

set_neuron(N, index, type) ==
    LET cnt   == IF index < Len(N.m_neurons) THEN Len(N.m_neurons) ELSE index + 1
        grown == SeqOf([i \in 1..cnt |->
                           IF i <= Len(N.m_neurons) THEN N.m_neurons[i] ELSE <<>>],
                       cnt)
        G  == [N EXCEPT !.m_neurons = grown]
        N1 == IF grown[index + 1] # <<>>
              THEN synapses_remove(io_remove(G, At(G, index)), index)
              ELSE [G EXCEPT !.m_size = @ + 1]
        n  == neuron(index, type)
    IN  io_add([N1 EXCEPT !.m_neurons[index + 1] = <<n>>], n)

\* A stand-in for an indeterminate m_size too large for vector::reserve
HugeSize == 1000

\* neurons.reserve(m_size) throws std::length_error or std::bad_alloc
ReserveThrows(n) == n >= HugeSize

\* The slot a neuron object at p is moved to by reindex
NewSlot(N, p) == Cardinality({q \in LiveSlots(N) : q < p})

RECURSIVE io_add_all(_, _)
io_add_all(N, p) ==
    IF p >= Len(N.m_neurons) THEN N
    ELSE io_add_all(io_add(N, At(N, p)), p + 1)

\* nn::reindex.  The neuron objects are moved, not copied, so a dendrite's
\* reference follows its source to the new slot.  (As written the lambda
\* copies a unique_ptr and calls io_add without capturing this; the model
\* takes the move and the call that are meant.)
reindex_keeps_index(N) ==
    IF ReserveThrows(N.m_size) THEN N
    ELSE
        LET live == LiveSlots(N)
            Old(j) == CHOOSE p \in live : NewSlot(N, p) = j
            Moved(p) ==
                [At(N, p) EXCEPT
                    !.dendrites = SeqOf([k \in 1..Len(@) |->
                        [@[k] EXCEPT !.source = NewSlot(N, @)]], Len(@))]
            neurons == SeqOf([j \in 1..Cardinality(live) |-> <<Moved(Old(j - 1))>>],
                             Cardinality(live))
        IN  io_add_all(NN(N.m_size, neurons, <<>>, <<>>), 0)

reindex(N) ==
    IF ReserveThrows(N.m_size) THEN N
    ELSE
        LET live == LiveSlots(N)
            Old(j) == CHOOSE p \in live : NewSlot(N, p) = j
            Moved(p) ==
                [At(N, p) EXCEPT
                    !.index = NewSlot(N, p),
                    !.dendrites = SeqOf([k \in 1..Len(@) |->
                        [@[k] EXCEPT !.source = NewSlot(N, @)]], Len(@))]
            neurons == SeqOf([j \in 1..Cardinality(live) |-> <<Moved(Old(j - 1))>>],
                             Cardinality(live))
        IN  io_add_all(NN(N.m_size, neurons, <<>>, <<>>), 0)

\* nn::prune: the statement `n.minimise_dendrites;` names the member
\* function without calling it, so no neuron is changed
prune(N) == N

\* nn::minimise: one sweep of for_each_neuron, from slot p on
RECURSIVE minimise_sweep(_, _, _)
minimise_sweep(N, p, rm_cnt) ==
    IF p >= Len(N.m_neurons) THEN [nn |-> N, rm_cnt |-> rm_cnt]
    ELSE IF Occupied(N, p) /\ At(N, p).type = INNER
                           /\ Len(At(N, p).dendrites) = 0
         THEN minimise_sweep(remove_neuron(N, p), p + 1, rm_cnt + 1)
         ELSE minimise_sweep(N, p + 1, rm_cnt)

\* nn::minimise: do { ... } while (rm_cnt)
RECURSIVE minimise_loop(_)
minimise_loop(N) ==
    LET r == minimise_sweep(N, 0, 0)
    IN  IF r.rm_cnt # 0 THEN minimise_loop(r.nn) ELSE r.nn

\* nn::minimise
minimise(N) == reindex(minimise_loop(prune(N)))

-----------------------------------------------------------------------------
(* The stand-alone cell: every public operation of fixable, any arguments  *)

NoOp == [op |-> "none", val |-> 0, override |-> FALSE, mode |-> UNFIXED,
         before |-> [val |-> 0, fix |-> UNFIXED], err |-> "none"]

Did(op, val, override, mode, before, err) ==
    [op |-> op, val |-> val, override |-> override, mode |-> mode,
     before |-> before, err |-> err]

\* No network is under construction
TopoIdle ==
    /\ m_size = 0
    /\ m_neurons = <<>>
    /\ m_inputs = <<>>
    /\ m_outputs = <<>>
    /\ topo_op = "none"

\* No evaluator has been constructed
NoEval == [op |-> "none"]

EvalIdle ==
    /\ kind = "none"
    /\ act = "none"
    /\ m_results = <<>>
    /\ m_reset = TRUE
    /\ ev = NoEval

\* No trainer has been constructed
NoTrain == [op |-> "none"]

\* No criterion object is in use
NoCrit == [kind |-> "none"]

TrainIdle ==
    /\ m_features = 0
    /\ m_fixes = <<>>
    /\ m_slots = <<>>
    /\ tr = NoTrain
    /\ crit = NoCrit

\* fixable(const T & val): constructed with an initialiser, not fixed
InitFix ==
    /\ cell \in [val : Vals, fix : {UNFIXED}]
    /\ last = NoOp
    /\ TopoIdle
    /\ EvalIdle
    /\ TrainIdle

Set ==
    \E v \in Vals, o \in BOOLEAN :
        LET r == set(cell, v, o)
        IN  /\ cell' = r.cell
            /\ last' = Did("set", v, o, UNFIXED, cell, r.err)
            /\ UNCHANGED <<topoVars, evalVars, trainVars>>

\* operator = (const T & val): set(val)
Assign ==
    \E v \in Vals :
        LET r == set(cell, v, FALSE)
        IN  /\ cell' = r.cell
            /\ last' = Did("assign", v, FALSE, UNFIXED, cell, r.err)
            /\ UNCHANGED <<topoVars, evalVars, trainVars>>

Fix ==
    \E m \in FixModes :
        /\ cell' = fix(cell, m)
        /\ last' = Did("fix", 0, FALSE, m, cell, "none")
        /\ UNCHANGED <<topoVars, evalVars, trainVars>>

FixVal ==
    \E v \in Vals, o \in BOOLEAN, m \in FixModes :
        LET r == fix_val(cell, v, o, m)
        IN  /\ cell' = r.cell
            /\ last' = Did("fix_val", v, o, m, cell, r.err)
            /\ UNCHANGED <<topoVars, evalVars, trainVars>>

Reset ==
    \E v \in Vals :
        /\ cell' = reset(cell, v)
        /\ last' = Did("reset", v, FALSE, UNFIXED, cell, "none")
        /\ UNCHANGED <<topoVars, evalVars, trainVars>>

\* C6: HARD fixation is absorbing: once the cell is HARD, no set (with or
\* without override), assignment, fix (any mode), set-and-fix or reset
\* changes its state or its value.
C6_HardAbsorbing == [][cell.fix = HARDFIX => cell' = cell]_vars

\* A reset (and before it a set-and-fix) has acted on a HARD cell
C6_Witness ==
    /\ last.op = "reset"
    /\ last.before.fix = HARDFIX
    /\ last.val # last.before.val
    /\ cell.fix = HARDFIX

\* C8: set(v, override_soft) fails with InvariantError (std::logic_error)
\* exactly when the cell is HARD, or SOFT with override_soft false; a failed
\* set changes neither value nor state, a successful one changes only the
\* value.
SetFails(c, override_fixed) ==
    c.fix = HARDFIX \/ (c.fix = SOFTFIX /\ ~override_fixed)

C8_SetContract ==
    last.op \in {"set", "assign"} =>
        /\ last.err = (IF SetFails(last.before, last.override)
                        THEN "logic_error" ELSE "none")
        /\ SetFails(last.before, last.override) => cell = last.before
        /\ ~SetFails(last.before, last.override) =>
                cell = [val |-> last.val, fix |-> last.before.fix]

\* set with override on a HARD cell has failed and left the cell alone
C8_Witness ==
    /\ last.op = "set"
    /\ last.override
    /\ last.before.fix = HARDFIX
    /\ last.err = "logic_error"
    /\ last.val # cell.val

NextFix ==
    \/ Set
    \/ Assign
    \/ Fix
    \/ FixVal
    \/ Reset

SpecFix == InitFix /\ [][NextFix]_vars

-----------------------------------------------------------------------------
(* Building and editing a network: every public mutator of nn and neuron   *)

\* Most slots a network is grown to
MaxSlots == 2

\* Most dendrites a network holds at a time
MaxDendrites == 1

\* The weights given to set_dendrite
Weights == {0, 1}

\* The network as it is now
Net == NN(m_size, m_neurons, m_inputs, m_outputs)

DendriteCnt(N) ==
    LET RECURSIVE Sum(_)
        Sum(p) == IF p >= Len(N.m_neurons) THEN 0
                  ELSE (IF Occupied(N, p) THEN Len(At(N, p).dendrites) ELSE 0)
                       + Sum(p + 1)
    IN  Sum(0)

Install(N, op) ==
    /\ m_size' = N.m_size
    /\ m_neurons' = N.m_neurons
    /\ m_inputs' = N.m_inputs
    /\ m_outputs' = N.m_outputs
    /\ topo_op' = op
    /\ UNCHANGED <<fixVars, evalVars, trainVars>>

\* No stand-alone cell is in use
FixIdle ==
    /\ cell = [val |-> 0, fix |-> UNFIXED]
    /\ last = NoOp

\* nn() {}: m_size is not initialised, so it starts with whatever the
\* storage held: 0, or a value reserve() cannot serve
InitTopo ==
    /\ m_size \in {0, HugeSize}
    /\ m_neurons = <<>>
    /\ m_inputs = <<>>
    /\ m_outputs = <<>>
    /\ topo_op = "none"
    /\ FixIdle
    /\ EvalIdle
    /\ TrainIdle

AddNeuron ==
    \E t \in Types :
        /\ Len(m_neurons) < MaxSlots
        /\ Install(add_neuron(Net, t), "add_neuron")

SetNeuron ==
    \E index \in 0..(MaxSlots - 1), t \in Types, N \in {Net} :
        Install(set_neuron(N, index, t),
                IF Occupied(N, index)
                THEN (IF At(N, index).type # t THEN "set_neuron_replace_type"
                      ELSE "set_neuron_replace")
                ELSE IF index < Len(m_neurons) THEN "set_neuron_fill"
                ELSE "set_neuron_grow")

\* Another neuron has a dendrite whose source is the neuron at p
IsSource(N, p) ==
    \E q \in LiveSlots(N) \ {p} :
        get_dendrite_iter(At(N, q), p) <= Len(At(N, q).dendrites)

RemoveNeuron ==
    \E p \in LiveSlots(Net) :
        Install(remove_neuron(Net, p),
                IF IsSource(Net, p) THEN "remove_neuron_source"
                ELSE "remove_neuron")

SetDendrite ==
    \E p \in LiveSlots(Net), q \in LiveSlots(Net), w \in Weights :
        /\ \/ DendriteCnt(Net) < MaxDendrites
           \/ get_dendrite_iter(At(Net, p), q) <= Len(At(Net, p).dendrites)
        /\ Install([Net EXCEPT !.m_neurons[p + 1] =
                        <<set_dendrite(At(Net, p), q, w)>>], "set_dendrite")

UnsetDendrite ==
    \E p \in LiveSlots(Net), q \in LiveSlots(Net) :
        Install([Net EXCEPT !.m_neurons[p + 1] =
                     <<unset_dendrite(At(Net, p), q)>>], "unset_dendrite")

Reindex ==
    \E N \in {reindex(Net)} :
        Install(N, IF Len(N.m_neurons) < Len(m_neurons) THEN "reindex_compacted"
                   ELSE "reindex")

Prune == \E N \in {prune(Net)} : Install(N, "prune")

Minimise ==
    \E N \in {minimise(Net)} :
        Install(N, IF Len(N.m_neurons) < Len(m_neurons) THEN "minimise_compacted"
                   ELSE "minimise")

Clear == \E N \in {clear(Net)} : Install(N, "clear")

NextTopo ==
    \/ AddNeuron
    \/ SetNeuron
    \/ RemoveNeuron
    \/ SetDendrite
    \/ UnsetDendrite
    \/ Reindex
    \/ Prune
    \/ Minimise
    \/ Clear

SpecTopo == InitTopo /\ [][NextTopo]_vars

\* C11: every dendrite of every neuron has a non-vacant neuron of the network
\* as its source, after any sequence of add_neuron, set_dendrite (given live
\* neurons), unset_dendrite, remove_neuron, set_neuron and reindex: removing
\* or replacing a neuron removes the dendrites whose source it was.
C11_SourcesLive ==
    \A p \in LiveSlots(Net) :
        \A k \in 1..Len(At(Net, p).dendrites) :
            Occupied(Net, At(Net, p).dendrites[k].source)

\* The neuron at 0 was removed while the neuron at 1 had a dendrite from it
C11_Witness ==
    /\ topo_op = "remove_neuron_source"
    /\ ~Occupied(Net, 0)
    /\ Occupied(Net, 1)
    /\ At(Net, 1).dendrites = <<>>

\* C12: from a newly constructed network on, size() is the number of
\* non-vacant slots and slot_cnt() the number of slots.
C12_SizeCounts ==
    /\ size(Net) = Cardinality(LiveSlots(Net))
    /\ slot_cnt(Net) = Len(m_neurons)

\* C9: after any sequence of add_neuron, set_neuron (filling a vacancy,
\* growing the slot vector, or replacing a neuron), remove_neuron, reindex
\* and minimise, every non-vacant slot i holds a neuron whose stored index
\* is i.
C9_IndexIsSlot == \A p \in LiveSlots(Net) : At(Net, p).index = p

\* reindex has moved a neuron down into a slot a removal had vacated, and
\* the neuron (which has a dendrite to itself) carries its new index
C9_Witness ==
    /\ topo_op = "reindex_compacted"
    /\ Len(m_neurons) = 1
    /\ Occupied(Net, 0)
    /\ At(Net, 0).index = 0
    /\ At(Net, 0).type = OUTPUT
    /\ Len(At(Net, 0).dendrites) = 1

\* The indices of the non-vacant neurons of a type
IndicesOf(N, t) == {At(N, p).index : p \in {q \in LiveSlots(N) : At(N, q).type = t}}

\* The list holds each element of the set exactly once and nothing else
ListsExactly(list, S) ==
    /\ {list[k] : k \in 1..Len(list)} = S
    /\ Len(list) = Cardinality(S)

\* C10: after any sequence of add_neuron, set_neuron (including replacing
\* a neuron by one of a different role), remove_neuron, reindex and clear,
\* the inputs list contains each index of a non-vacant INPUT neuron exactly
\* once and nothing else, and the outputs list does the same for OUTPUT
\* neurons.
C10_IOLists ==
    /\ ListsExactly(m_inputs, IndicesOf(Net, INPUT))
    /\ ListsExactly(m_outputs, IndicesOf(Net, OUTPUT))

\* set_neuron has replaced an INPUT neuron by an OUTPUT neuron while
\* another INPUT neuron stays listed
C10_Witness ==
    /\ topo_op = "set_neuron_replace_type"
    /\ m_inputs = <<1>>
    /\ m_outputs = <<0>>
    /\ At(Net, 0).type = OUTPUT
    /\ At(Net, 1).type = INPUT

-----------------------------------------------------------------------------
(***************************************************************************)
(* The computation engine (ml/computation.hxx) and the forward evaluators  *)
(* nn_func and backpropagation::forward (ml/nn_func.hxx).                  *)
(*                                                                         *)
(* A result Fx is the record [net, phi_net] of forward_result; the Base_t  *)
(* result of nn_func is held in phi_net, with net always 0.  An exception  *)
(* is the err field of the machine state: once it is set, the rest of the  *)
(* call is skipped, as stack unwinding does.                               *)
(***************************************************************************)

\* forward_result(): net(0), phi_net(0); for nn_func, Base_t() = 0
DefaultFx == [net |-> 0, phi_net |-> 0]

\* forward_result(const Base_t & phi): net(0), phi_net(phi)
forward_result(phi) == [net |-> 0, phi_net |-> phi]

\* The activation function of the unit tests: f(x) = x
identity(x) == x

\* math::sign_fn
sign_fn(x) == IF x < 0 THEN -1 ELSE IF x = 0 THEN 0 ELSE 1

\* n.act_fn(x), for the Act_fn the network was instantiated with
act_fn(a, x) == IF a = "identity" THEN identity(x) ELSE sign_fn(x)

\* An evaluator: its class, its Act_fn and the network it refers to
Evaluator(k, a, N) == [kind |-> k, act |-> a, network |-> N]

\* The members of a computation during a call, what the call has thrown,
\* and what was seen of it: calls[i + 1] counts the invocations of f for
\* neuron i since the last reset(), reentry holds the cells found on reaching
\* a neuron whose f is running, diverged tells that f was entered again for
\* such a neuron, invoked holds the neurons f was invoked for in this call,
\* f_hard tells that f was invoked for a HARD cell
Machine(results, reset_flag, calls) ==
    [results |-> results, reset |-> reset_flag, err |-> "none",
     calls |-> calls, reentry |-> {}, diverged |-> FALSE, invoked |-> {},
     f_hard |-> FALSE]

Throw(M, e) == [M EXCEPT !.err = e]

Ret(M, v) == [m |-> M, val |-> v]

InStack(stack, index) == \E k \in 1..Len(stack) : stack[k] = index

Zeros(n) == SeqOf([i \in 1..n |-> 0], n)

\* check_index(index) passes
check_index(M, index) == index < Len(M.results)

fx_set_drops_value(M, index, value, override_fixed) ==
    IF ~check_index(M, index) THEN Throw(M, "range_error")
    ELSE [M EXCEPT !.results[index + 1] = fix(@, SOFTFIX), !.reset = FALSE]

fx_set_keeps_flag(M, index, value, override_fixed) ==
    IF ~check_index(M, index) THEN Throw(M, "range_error")
    ELSE LET r == fix_val(M.results[index + 1], value, override_fixed, SOFTFIX)
         IN  IF r.err # "none" THEN Throw(M, r.err)
             ELSE [M EXCEPT !.results[index + 1] = r.cell]

\* void fx(size_t index, const Fx & value, bool override_fixed = false)
fx_set(M, index, value, override_fixed) ==
    IF ~check_index(M, index) THEN Throw(M, "range_error")
    ELSE LET r == fix_val(M.results[index + 1], value, override_fixed, SOFTFIX)
         IN  IF r.err # "none" THEN Throw(M, r.err)
             ELSE [M EXCEPT !.results[index + 1] = r.cell, !.reset = FALSE]

\* const_fx(index, value): HARD-fixes the cell to value
const_fx(M, index, value) ==
    IF ~check_index(M, index) THEN Throw(M, "range_error")
    ELSE LET r == fix_val(M.results[index + 1], value, TRUE, HARDFIX)
         IN  IF r.err # "none" THEN Throw(M, r.err)
             ELSE [M EXCEPT !.results[index + 1] = r.cell]

\* void reset(): a call of it starts a new count of the invocations of f
computation_reset(M) ==
    IF M.reset THEN [M EXCEPT !.calls = Zeros(Len(M.results))]
    ELSE [M EXCEPT
            !.results = SeqOf([i \in 1..Len(M.results) |->
                                   reset(M.results[i], DefaultFx)],
                              Len(M.results)),
            !.reset = TRUE,
            !.calls = Zeros(Len(M.results))]

prefix_skipped(c) == c

\* value.fix(): fix in advance in case there's a cycle
prefix(c) == fix(c, SOFTFIX)

RECURSIVE fx(_, _, _, _)
RECURSIVE nn_func_sum(_, _, _, _, _, _)
RECURSIVE forward_sum(_, _, _, _, _, _)

nn_func_sum_unweighted(E, M, n, k, net, stack) ==
    IF k > Len(n.dendrites) THEN [m |-> M, net |-> net]
    ELSE LET dend == n.dendrites[k]
             r == fx(E, M, At(E.network, dend.source).index, stack)
         IN  IF r.m.err # "none" THEN [m |-> r.m, net |-> net]
             ELSE nn_func_sum(E, r.m, n, k + 1, net + r.val.phi_net, stack)

\* nn_func::f, n.for_each_dendrite: net += dend.weight * fx(dend.source.index())
\* for the dendrites from the k-th on
nn_func_sum(E, M, n, k, net, stack) ==
    IF k > Len(n.dendrites) THEN [m |-> M, net |-> net]
    ELSE LET dend == n.dendrites[k]
             r == fx(E, M, At(E.network, dend.source).index, stack)
         IN  IF r.m.err # "none" THEN [m |-> r.m, net |-> net]
             ELSE nn_func_sum(E, r.m, n, k + 1,
                              net + dend.weight * r.val.phi_net, stack)

\* Base_t nn_func::f(const neuron & n)
nn_func_f(E, M, n, stack) ==
    LET r == nn_func_sum(E, M, n, 1, 0, stack)
    IN  Ret(r.m, [net |-> 0, phi_net |-> act_fn(E.act, r.net)])

\* forward::f, n.for_each_dendrite:
\* res.net += dend.weight * fx(dend.source.index()).phi_net
\* for the dendrites from the k-th on
forward_sum(E, M, n, k, net, stack) ==
    IF k > Len(n.dendrites) THEN [m |-> M, net |-> net]
    ELSE LET dend == n.dendrites[k]
             r == fx(E, M, At(E.network, dend.source).index, stack)
         IN  IF r.m.err # "none" THEN [m |-> r.m, net |-> net]
             ELSE forward_sum(E, r.m, n, k + 1,
                              net + dend.weight * r.val.phi_net, stack)

\* forward_result forward::f(const neuron & n)
forward_f(E, M, n, stack) ==
    LET r == forward_sum(E, M, n, 1, 0, stack)
    IN  Ret(r.m, [net |-> r.net, phi_net |-> act_fn(E.act, r.net)])

\* backward_result(const Base_t & d): delta(d); backward_result(): delta(0)
backward_result(delta) == [delta |-> delta]

\* The derivative of the activation function of the unit tests: d(x) = 1
identity_d(x) == 1

\* n.act_fn().d(x); math::sign_fn has no member d, a trainer is instantiated
\* with the identity
act_fn_d(a, x) == identity_d(x)

fx_const_fixes(M, index) ==
    IF ~check_index(M, index) THEN Ret(Throw(M, "range_error"), DefaultFx)
    ELSE IF fixed(M.results[index + 1])
    THEN Ret(M, M.results[index + 1].val)
    ELSE Ret([M EXCEPT !.results[index + 1] = prefix(M.results[index + 1]),
                       !.reset = FALSE],
             M.results[index + 1].val)

\* const Fx & fx(size_t index) const: the value if fixed, else logic_error
fx_const(M, index) ==
    IF ~check_index(M, index) THEN Ret(Throw(M, "range_error"), DefaultFx)
    ELSE IF fixed(M.results[index + 1])
    THEN Ret(M, M.results[index + 1].val)
    ELSE Ret(Throw(M, "logic_error"), DefaultFx)

\* The pairs (dend, n_index) create_fmap appends to fmap[s] for the neurons
\* from slot p on and, of p, the dendrites from the k-th on.  dend refers to
\* the dendrite: it is kept as the slot of its neuron and its position.
RECURSIVE fmap_of(_, _, _, _)
fmap_of(N, s, p, k) ==
    IF p >= slot_cnt(N) THEN <<>>
    ELSE IF ~Occupied(N, p) \/ k > Len(At(N, p).dendrites)
    THEN fmap_of(N, s, p + 1, 1)
    ELSE (IF At(N, At(N, p).dendrites[k].source).index = s
          THEN <<[first |-> [n |-> p, k |-> k], second |-> At(N, p).index]>>
          ELSE <<>>) \o fmap_of(N, s, p, k + 1)

\* static forward_map_t create_fmap(const nn_t & nn)
create_fmap(N) ==
    SeqOf([i \in 1..slot_cnt(N) |-> fmap_of(N, i - 1, 0, 1)], slot_cnt(N))

fw_dend_weight_one(N, dend) == 1

\* fw_dend.weight, read through the reference the map holds
fw_dend_weight(N, dend) == At(N, dend.n).dendrites[dend.k].weight

\* An evaluator of the backward stage: the network, the forward map and
\* the forward stage (its members) it refers to
Backward(a, N, fmap, forvard) ==
    [kind |-> "backward", act |-> a, network |-> N, m_fmap |-> fmap,
     m_forward |-> forvard]

\* backward::f, for_each over fw_neurons:
\* res.delta += fx(fw_n_index).delta * fw_dend.weight, from the k-th pair on
RECURSIVE backward_sum(_, _, _, _, _, _)
backward_sum(E, M, fw_neurons, k, delta, stack) ==
    IF k > Len(fw_neurons) THEN [m |-> M, delta |-> delta]
    ELSE LET fw_dend    == fw_neurons[k].first
             fw_n_index == fw_neurons[k].second
             r == fx(E, M, fw_n_index, stack)
         IN  IF r.m.err # "none" THEN [m |-> r.m, delta |-> delta]
             ELSE backward_sum(E, r.m, fw_neurons, k + 1,
                               delta + r.val.delta
                                       * fw_dend_weight(E.network, fw_dend),
                               stack)

\* backward_result backward::f(const neuron & n)
backward_f(E, M, n, stack) ==
    IF n.type = OUTPUT THEN Ret(Throw(M, "logic_error"), backward_result(0))
    ELSE
    LET r == backward_sum(E, M, E.m_fmap[n.index + 1], 1, 0, stack)
    IN  IF r.m.err # "none" THEN Ret(r.m, backward_result(0))
        ELSE
        LET fw == fx_const(E.m_forward, n.index)
        IN  IF fw.m.err # "none"
            THEN Ret(Throw(r.m, fw.m.err), backward_result(0))
            ELSE Ret(r.m,
                     backward_result(r.delta * act_fn_d(E.act, fw.val.net)))

\* virtual Fx f(const neuron & n) = 0, as the evaluator class overrides it
f(E, M, n, stack) ==
    IF E.kind = "forward" THEN forward_f(E, M, n, stack)
    ELSE IF E.kind = "backward" THEN backward_f(E, M, n, stack)
    ELSE nn_func_f(E, M, n, stack)

\* const Fx & fx(size_t index): stack holds the neurons whose f is running.
\* Entering f for a neuron whose f is running would repeat without end; the
\* call is then cut short as diverged.
fx(E, M, index, stack) ==
    IF ~check_index(M, index) THEN Ret(Throw(M, "range_error"), DefaultFx)
    ELSE
    LET value == M.results[index + 1] IN
    IF fixed(value)
    THEN Ret(IF InStack(stack, index)
             THEN [M EXCEPT !.reentry = @ \cup {[index |-> index,
                                                  fix |-> value.fix,
                                                  val |-> value.val]}]
             ELSE M,
             value.val)
    ELSE IF InStack(stack, index)
    THEN Ret([M EXCEPT !.diverged = TRUE, !.err = "no_return"], DefaultFx)
    ELSE
    LET M1 == [M EXCEPT !.results[index + 1] = prefix(value),
                        !.reset = FALSE]
    IN  IF ~Occupied(E.network, index)
        THEN Ret(Throw(M1, "range_error"), DefaultFx)
        ELSE
        LET M2 == [M1 EXCEPT !.calls[index + 1] = @ + 1,
                             !.invoked = @ \cup {index},
                             !.f_hard = @ \/ value.fix = HARDFIX]
            r  == f(E, M2, At(E.network, index), Append(stack, index))
        IN  IF r.m.err # "none" THEN r
            ELSE
            LET w == set(r.m.results[index + 1], r.val, TRUE)
            IN  IF w.err # "none" THEN Ret(Throw(r.m, w.err), DefaultFx)
                ELSE Ret([r.m EXCEPT !.results[index + 1] = w.cell], r.val)

\* for_each_input of nn_func::operator (): fx(n.index(), *(in_iter++))
\* for the inputs from the k-th on
RECURSIVE nn_func_inputs(_, _, _, _)
nn_func_inputs(E, M, k, input) ==
    IF k > Len(E.network.m_inputs) \/ M.err # "none" THEN M
    ELSE nn_func_inputs(
             E,
             fx_set(M, At(E.network, E.network.m_inputs[k]).index,
                    [net |-> 0, phi_net |-> input[k]], FALSE),
             k + 1, input)

\* for_each_output of nn_func::operator (): output.push_back(fx(n.index()))
\* for the outputs from the k-th on
RECURSIVE nn_func_outputs(_, _, _, _)
nn_func_outputs(E, M, k, output) ==
    IF k > Len(E.network.m_outputs) THEN [m |-> M, output |-> output]
    ELSE LET r == fx(E, M, At(E.network, E.network.m_outputs[k]).index, <<>>)
         IN  IF r.m.err # "none" THEN [m |-> r.m, output |-> <<>>]
             ELSE nn_func_outputs(E, r.m, k + 1,
                                  Append(output, r.val.phi_net))

\* std::vector<Base_t> nn_func::operator () (const Input & input)
nn_func_apply(E, M, input) ==
    LET M1 == computation_reset(M)
        M2 == nn_func_inputs(E, M1, 1, input)
    IN  IF M2.err # "none" THEN [m |-> M2, output |-> <<>>]
        ELSE nn_func_outputs(E, M2, 1, <<>>)

\* for_each_input of forward::operator (): in_res.phi_net = *(in_iter++);
\* fx(n.index(), in_res), for the inputs from the k-th on
RECURSIVE forward_inputs(_, _, _, _)
forward_inputs(E, M, k, input) ==
    IF k > Len(E.network.m_inputs) \/ M.err # "none" THEN M
    ELSE forward_inputs(
             E,
             fx_set(M, At(E.network, E.network.m_inputs[k]).index,
                    [DefaultFx EXCEPT !.phi_net = input[k]], FALSE),
             k + 1, input)

\* for_each_output of forward::operator ():
\* output.push_back(fx(n.index()).phi_net), for the outputs from the k-th on
RECURSIVE forward_outputs(_, _, _, _)
forward_outputs(E, M, k, output) ==
    IF k > Len(E.network.m_outputs) THEN [m |-> M, output |-> output]
    ELSE LET r == fx(E, M, At(E.network, E.network.m_outputs[k]).index, <<>>)
         IN  IF r.m.err # "none" THEN [m |-> r.m, output |-> <<>>]
             ELSE forward_outputs(E, r.m, k + 1,
                                  Append(output, r.val.phi_net))

\* std::vector<Base_t> forward::operator () (const Input & input)
forward_apply(E, M, input) ==
    LET M1 == computation_reset(M)
        M2 == forward_inputs(E, M1, 1, input)
    IN  IF M2.err # "none" THEN [m |-> M2, output |-> <<>>]
        ELSE forward_outputs(E, M2, 1, <<>>)

\* void forward::fix(size_t n, const Base_t & phi)
forward_fix(M, n, phi) == const_fx(M, n, forward_result(phi))

\* void backward::fix(size_t n, const Base_t & delta)
backward_fix(M, n, delta) == const_fx(M, n, backward_result(delta))

\* void reset() of a computation whose Fx is backward_result
backward_reset(M) ==
    IF M.reset THEN [M EXCEPT !.calls = Zeros(Len(M.results))]
    ELSE [M EXCEPT
            !.results = SeqOf([i \in 1..Len(M.results) |->
                                   reset(M.results[i], backward_result(0))],
                              Len(M.results)),
            !.reset = TRUE,
            !.calls = Zeros(Len(M.results))]

\* for_each_output of backward::operator ():
\* out_res.delta = *(err_iter++) * d(m_forward.fx(n.index()).net);
\* fx(n.index(), out_res), for the outputs from the k-th on
RECURSIVE backward_outputs(_, _, _, _)
backward_outputs(E, M, k, error) ==
    IF k > Len(E.network.m_outputs) \/ M.err # "none" THEN M
    ELSE LET index == At(E.network, E.network.m_outputs[k]).index
             fw    == fx_const(E.m_forward, index)
         IN  IF fw.m.err # "none" THEN Throw(M, fw.m.err)
             ELSE backward_outputs(
                      E,
                      fx_set(M, index,
                             backward_result(
                                 error[k] * act_fn_d(E.act, fw.val.net)),
                             FALSE),
                      k + 1, error)

\* for_each_input of backward::operator (): fx(n.index()),
\* for the inputs from the k-th on
RECURSIVE backward_inputs(_, _, _)
backward_inputs(E, M, k) ==
    IF k > Len(E.network.m_inputs) THEN M
    ELSE LET r == fx(E, M, At(E.network, E.network.m_inputs[k]).index, <<>>)
         IN  IF r.m.err # "none" THEN r.m
             ELSE backward_inputs(E, r.m, k + 1)

backward_apply_sweeps_first(E, M, error) ==
    LET M1 == backward_reset(M)
        M2 == backward_inputs(E, M1, 1)
    IN  IF M2.err # "none" THEN M2 ELSE backward_outputs(E, M2, 1, error)

\* void backward::operator () (const std::vector<Base_t> & error)
backward_apply(E, M, error) ==
    LET M1 == backward_reset(M)
        M2 == backward_outputs(E, M1, 1, error)
    IN  IF M2.err # "none" THEN M2 ELSE backward_inputs(E, M2, 1)

(***************************************************************************)
(* ml::backpropagation                                                     *)
(***************************************************************************)

\* The members of a computation, as a slot keeps them between the calls
Grid(M) == [results |-> M.results, reset |-> M.reset]

MachineOf(g) == Machine(g.results, g.reset, Zeros(Len(g.results)))

\* computation(const nn_t & network) for Fx with the default value dflt:
\* m_results(network.slot_cnt()), m_reset(true)
computation(N, dflt) ==
    [results |-> SeqOf([i \in 1..slot_cnt(N) |->
                           [val |-> dflt, fix |-> UNFIXED]],
                       slot_cnt(N)),
     reset |-> TRUE]

\* comp_slot(network, fmap): fw(network), bw(network, fmap, fw)
comp_slot(N) ==
    [fw |-> computation(N, DefaultFx), bw |-> computation(N, backward_result(0))]

\* for_each over m_fixes of assert_slots: slot.fw.fix(fix.first, fix.second);
\* slot.bw.fix(fix.first, 0), for the fixes from the k-th on
RECURSIVE fix_slot(_, _, _)
fix_slot_forward_only(slot, fixes, k) ==
    IF k > Len(fixes) THEN [slot |-> slot, err |-> "none"]
    ELSE LET fw == forward_fix(MachineOf(slot.fw), fixes[k].first,
                               fixes[k].second)
         IN  IF fw.err # "none"
             THEN [slot |-> slot, err |-> fw.err]
             ELSE fix_slot([slot EXCEPT !.fw = Grid(fw)], fixes, k + 1)

fix_slot(slot, fixes, k) ==
    IF k > Len(fixes) THEN [slot |-> slot, err |-> "none"]
    ELSE LET fw == forward_fix(MachineOf(slot.fw), fixes[k].first,
                               fixes[k].second)
             bw == backward_fix(MachineOf(slot.bw), fixes[k].first, 0)
         IN  IF fw.err # "none"
             THEN [slot |-> slot, err |-> fw.err]
             ELSE IF bw.err # "none"
             THEN [slot |-> [slot EXCEPT !.fw = Grid(fw)], err |-> bw.err]
             ELSE fix_slot([fw |-> Grid(fw), bw |-> Grid(bw)], fixes, k + 1)

\* void assert_slots(size_t n)
RECURSIVE assert_slots(_, _, _, _)
assert_slots(slots, N, fixes, n) ==
    LET emplaced(r) ==
            IF r.err # "none"
            THEN [slots |-> Append(slots, r.slot), err |-> r.err]
            ELSE assert_slots(Append(slots, r.slot), N, fixes, n)
    IN  IF Len(slots) >= n THEN [slots |-> slots, err |-> "none"]
        ELSE emplaced(fix_slot(comp_slot(N), fixes, 1))

\* The sum of err * err over the error vector, from its k-th element on
RECURSIVE Norm2(_, _)
Norm2(error, k) ==
    IF k > Len(error) THEN 0 ELSE error[k] * error[k] + Norm2(error, k + 1)

\* A step of a training call: the stage that was entered, on which slot
Step(stage, i) == [stage |-> stage, slot |-> i]

compute_backward_first(N, a, slot, i, input, output) ==
    LET done(bw) ==
            [slot |-> [slot EXCEPT !.bw = Grid(bw)], err |-> bw.err,
             error_norm2 |-> 0, actual |-> <<>>, swept |-> bw.invoked,
             log |-> <<Step("backward", i)>>]
    IN  done(backward_apply(Backward(a, N, create_fmap(N), MachineOf(slot.fw)),
                            MachineOf(slot.bw), output))

\* Base_t compute(input, output, slot): i is the place of the slot in the
\* list.  fw is what slot.fw(input) returned and left, bw what slot.bw(error)
\* left; actual is the vector slot.fw returned.
compute(N, a, slot, i, input, output) ==
    LET backward_stage(fw, s1, error, bw) ==
            [slot |-> [s1 EXCEPT !.bw = Grid(bw)], err |-> bw.err,
             error_norm2 |-> Norm2(error, 1), actual |-> fw.output,
             swept |-> bw.invoked,
             log |-> <<Step("forward", i), Step("backward", i)>>]
        forward_stage(fw) ==
            LET s1 == [slot EXCEPT !.fw = Grid(fw.m)]
            IN  IF fw.m.err # "none"
                THEN [slot |-> s1, err |-> fw.m.err, error_norm2 |-> 0,
                      actual |-> <<>>, swept |-> {},
                      log |-> <<Step("forward", i)>>]
                ELSE IF Len(output) # Len(fw.output)
                THEN [slot |-> s1, err |-> "logic_error", error_norm2 |-> 0,
                      actual |-> fw.output, swept |-> {},
                      log |-> <<Step("forward", i)>>]
                ELSE
                LET error == SeqOf([k \in 1..Len(fw.output) |->
                                       fw.output[k] - output[k]],
                                   Len(fw.output))
                IN  backward_stage(
                        fw, s1, error,
                        backward_apply(Backward(a, N, create_fmap(N), fw.m),
                                       MachineOf(slot.bw), error))
    IN  forward_stage(forward_apply(Evaluator("forward", a, N),
                                    MachineOf(slot.fw), input))

\* void update(alpha, slot): for_each_neuron from slot p on and, of p,
\* for_each_dendrite from the k-th on:
\* dend.weight -= alpha * bw_res.delta * fw_res.phi_net
RECURSIVE update_from(_, _, _, _, _)
update_from(N, alpha, slot, p, k) ==
    IF p >= slot_cnt(N) THEN [network |-> N, err |-> "none"]
    ELSE IF ~Occupied(N, p) THEN update_from(N, alpha, slot, p + 1, 1)
    ELSE
    LET bw_res == fx_const(MachineOf(slot.bw), At(N, p).index)
    IN  IF bw_res.m.err # "none" THEN [network |-> N, err |-> bw_res.m.err]
        ELSE IF k > Len(At(N, p).dendrites)
        THEN update_from(N, alpha, slot, p + 1, 1)
        ELSE
        LET dend   == At(N, p).dendrites[k]
            fw_res == fx_const(MachineOf(slot.fw), At(N, dend.source).index)
        IN  IF fw_res.m.err # "none"
            THEN [network |-> N, err |-> fw_res.m.err]
            ELSE update_from(
                     [N EXCEPT !.m_neurons[p + 1][1].dendrites[k].weight =
                                   @ - alpha * bw_res.val.delta
                                             * fw_res.val.phi_net],
                     alpha, slot, p, k + 1)

update_adds(N, alpha, slot) == update_from(N, 0 - alpha, slot, 0, 1)

\* update, were it to drop the dendrites it has gone through
update_unsets(N, alpha, slot) ==
    LET u == update_from(N, alpha, slot, 0, 1)
    IN  [u EXCEPT !.network.m_neurons =
            [p \in DOMAIN @ |->
                IF @[p] = <<>> THEN <<>>
                ELSE <<[@[p][1] EXCEPT !.dendrites = <<>>]>>]]

update(N, alpha, slot) == update_from(N, alpha, slot, 0, 1)

\* const_learning_factor(sigma, alpha)
Criterion(sigma, alpha) ==
    [kind |-> "const", m_sigma |-> sigma, m_alpha |-> alpha,
     m_update |-> FALSE]

const_learning_factor_sticky(criterion, num, den) ==
    IF criterion.m_update \/ num > criterion.m_sigma * den
    THEN criterion.m_alpha ELSE 0

\* const_learning_factor::operator () on the error norm num / den:
\* m_alpha if err_norm2 > m_sigma, else 0
const_learning_factor(criterion, num, den) ==
    IF num > criterion.m_sigma * den THEN criterion.m_alpha ELSE 0

\* const_learning_factor::operator (): the object as the call leaves it
const_learning_factor_self(criterion, num, den) ==
    [criterion EXCEPT !.m_update = num > criterion.m_sigma * den]

\* adaptive_learning_factor(sigma, alpha, conv_cmax, conv_cmin, alpha_incf,
\* alpha_decf); m_last_en2 is kept as the pair (num, den)
Adaptive(sigma, alpha, conv_cmax, conv_cmin, alpha_incf, alpha_decf) ==
    [kind |-> "adaptive", m_alpha |-> alpha, m_sigma |-> sigma,
     m_update |-> FALSE, m_last_en2 |-> [num |-> 0, den |-> 1],
     m_conv_cnt |-> 0, m_conv_cmax |-> conv_cmax, m_conv_cmin |-> conv_cmin,
     m_alpha_incf |-> alpha_incf, m_alpha_decf |-> alpha_decf]

adaptive_learning_factor_no_reset(criterion, num, den) ==
    LET convergency == num * criterion.m_last_en2.den
                           < criterion.m_last_en2.num * den
        cnt   == IF convergency THEN criterion.m_conv_cnt + 1
                 ELSE criterion.m_conv_cnt - 1
        limit == IF convergency THEN cnt >= criterion.m_conv_cmax
                 ELSE cnt <= criterion.m_conv_cmin
        alpha == IF ~limit THEN criterion.m_alpha
                 ELSE IF convergency
                 THEN criterion.m_alpha * criterion.m_alpha_incf
                 ELSE criterion.m_alpha * criterion.m_alpha_decf
    IN  IF ~(num > criterion.m_sigma * den)
        THEN [self |-> [criterion EXCEPT !.m_update = FALSE], ret |-> 0]
        ELSE [self |-> [criterion EXCEPT
                           !.m_update = TRUE,
                           !.m_conv_cnt = cnt,
                           !.m_alpha = alpha,
                           !.m_last_en2 = [num |-> num, den |-> den]],
              ret |-> alpha]

\* adaptive_learning_factor::operator () on the error norm num / den: the
\* object as the call leaves it and the value returned
adaptive_learning_factor(criterion, num, den) ==
    LET convergency == num * criterion.m_last_en2.den
                           < criterion.m_last_en2.num * den
        cnt   == IF convergency THEN criterion.m_conv_cnt + 1
                 ELSE criterion.m_conv_cnt - 1
        limit == IF convergency THEN cnt >= criterion.m_conv_cmax
                 ELSE cnt <= criterion.m_conv_cmin
        alpha == IF ~limit THEN criterion.m_alpha
                 ELSE IF convergency
                 THEN criterion.m_alpha * criterion.m_alpha_incf
                 ELSE criterion.m_alpha * criterion.m_alpha_decf
    IN  IF ~(num > criterion.m_sigma * den)
        THEN [self |-> [criterion EXCEPT !.m_update = FALSE], ret |-> 0]
        ELSE [self |-> [criterion EXCEPT
                           !.m_update = TRUE,
                           !.m_conv_cnt = IF limit THEN 0 ELSE cnt,
                           !.m_alpha = alpha,
                           !.m_last_en2 = [num |-> num, den |-> den]],
              ret |-> alpha]

\* criterion(error_norm2) in the template operators of the trainer: the
\* operator () of the class the template argument Criterion names
criterion_call(criterion, num, den) ==
    IF criterion.kind = "adaptive"
    THEN adaptive_learning_factor(criterion, num, den)
    ELSE [self |-> const_learning_factor_self(criterion, num, den),
          ret |-> const_learning_factor(criterion, num, den)]

\* What a training call did: the network and the slots it left, what it
\* threw, the value num / den it returned, its steps in order, and what
\* each compute call was given and found
Trained(N, slots, err, num, den, log, computed) ==
    [network |-> N, slots |-> slots, err |-> err,
     ret |-> [num |-> num, den |-> den], log |-> log, computed |-> computed]

\* What a compute call was given and found; swept holds the neurons f was
\* invoked for in the backward pass
Computed(i, input, output, c) ==
    [slot |-> i, input |-> input, output |-> output, actual |-> c.actual,
     error_norm2 |-> c.error_norm2, err |-> c.err, swept |-> c.swept]

\* Base_t operator () (input, output, criterion): on-line training.  A is
\* what assert_slots left, c what compute returned, u what update left.
train_one(N, a, slots, fixes, input, output, criterion) ==
    LET updated(slots1, c, computed, u) ==
            Trained(u.network, slots1, u.err, c.error_norm2, 1,
                    Append(c.log, Step("update", 1)), computed)
        computed_slot(A, c) ==
            LET slots1   == [A.slots EXCEPT ![1] = c.slot]
                computed == <<Computed(1, input, output, c)>>
                alpha    == criterion_call(criterion, c.error_norm2, 1).ret
            IN  IF c.err # "none"
                THEN Trained(N, slots1, c.err, 0, 1, c.log, computed)
                ELSE IF alpha = 0
                THEN Trained(N, slots1, "none", c.error_norm2, 1, c.log,
                             computed)
                ELSE updated(slots1, c, computed, update(N, alpha, c.slot))
        asserted(A) ==
            IF A.err # "none" THEN Trained(N, A.slots, A.err, 0, 1, <<>>, <<>>)
            ELSE computed_slot(A, compute(N, a, A.slots[1], 1, input, output))
    IN  asserted(assert_slots(slots, N, fixes, 1))

\* The loop "Compute batch" of the batch operator, for the slots from the
\* i-th on: error_norm2_avg += compute(iter->first, iter->second, *slot).
\* It ends at m_slots.end(); iter, once past the end of the set, refers to
\* no sample and *iter is whatever is found there: past_end.
RECURSIVE batch_compute(_, _, _, _, _, _, _, _, _)
batch_compute(N, a, slots, tset, past_end, i, sum, log, computed) ==
    LET sample == IF i <= Len(tset) THEN tset[i] ELSE past_end
        computed_slot(c) ==
            LET slots1 == [slots EXCEPT ![i] = c.slot]
                log1   == log \o c.log
                comp1  == Append(computed,
                                 Computed(i, sample.first, sample.second, c))
            IN  IF c.err # "none"
                THEN [slots |-> slots1, err |-> c.err, sum |-> sum,
                      log |-> log1, computed |-> comp1]
                ELSE batch_compute(N, a, slots1, tset, past_end, i + 1,
                                   sum + c.error_norm2, log1, comp1)
    IN  IF i > Len(slots)
        THEN [slots |-> slots, err |-> "none", sum |-> sum, log |-> log,
              computed |-> computed]
        ELSE computed_slot(compute(N, a, slots[i], i, sample.first,
                                   sample.second))

\* The loop "Update batch" of the batch operator, for the slots from the
\* i-th on: update(alpha4sample, *slot)
RECURSIVE batch_update(_, _, _, _, _)
batch_update(N, alpha4sample, slots, i, log) ==
    LET updated(u) ==
            IF u.err # "none"
            THEN [network |-> u.network, err |-> u.err,
                  log |-> Append(log, Step("update", i))]
            ELSE batch_update(u.network, alpha4sample, slots, i + 1,
                              Append(log, Step("update", i)))
    IN  IF i > Len(slots) THEN [network |-> N, err |-> "none", log |-> log]
        ELSE updated(update(N, alpha4sample, slots[i]))

train_batch_applies_computed(N, a, slots, fixes, tset, past_end, criterion) ==
    LET set_size == Len(tset)
        updated(c, u) ==
            Trained(u.network, c.slots,
                    IF c.err # "none" THEN c.err ELSE u.err,
                    IF c.err # "none" THEN 0 ELSE c.sum, set_size, u.log,
                    c.computed)
        computed_batch(c) ==
            LET alpha == criterion_call(criterion, c.sum, set_size).ret
                done  == IF c.err # "none" THEN Len(c.computed) - 1
                         ELSE Len(c.slots)
            IN  IF alpha = 0
                THEN Trained(N, c.slots, c.err,
                             IF c.err # "none" THEN 0 ELSE c.sum, set_size,
                             c.log, c.computed)
                ELSE updated(c, batch_update(N, alpha \div set_size,
                                             SubSeq(c.slots, 1, done), 1,
                                             c.log))
        asserted(A) ==
            IF A.err # "none"
            THEN Trained(N, A.slots, A.err, 0, set_size, <<>>, <<>>)
            ELSE computed_batch(batch_compute(N, a, A.slots, tset, past_end,
                                              1, 0, <<>>, <<>>))
    IN  asserted(assert_slots(slots, N, fixes, set_size))

train_batch_skips_update(N, a, slots, fixes, tset, past_end, criterion) ==
    LET computed_batch(c) ==
            Trained(N, c.slots, c.err, IF c.err = "none" THEN c.sum ELSE 0,
                    Len(tset), c.log, c.computed)
        asserted(A) ==
            IF A.err # "none"
            THEN Trained(N, A.slots, A.err, 0, Len(tset), <<>>, <<>>)
            ELSE computed_batch(batch_compute(N, a, A.slots, tset, past_end,
                                              1, 0, <<>>, <<>>))
    IN  asserted(assert_slots(slots, N, fixes, Len(tset)))

train_batch_ignores_criterion(N, a, slots, fixes, tset, past_end, criterion) ==
    LET set_size == Len(tset)
        updated(c, u) ==
            Trained(u.network, c.slots, u.err, c.sum, set_size, u.log,
                    c.computed)
        computed_batch(c) ==
            IF c.err # "none"
            THEN Trained(N, c.slots, c.err, 0, set_size, c.log, c.computed)
            ELSE updated(c, batch_update(N, criterion.m_alpha \div set_size,
                                         c.slots, 1, c.log))
        asserted(A) ==
            IF A.err # "none"
            THEN Trained(N, A.slots, A.err, 0, set_size, <<>>, <<>>)
            ELSE computed_batch(batch_compute(N, a, A.slots, tset, past_end,
                                              1, 0, <<>>, <<>>))
    IN  asserted(assert_slots(slots, N, fixes, set_size))

\* Base_t operator () (set, criterion): batch training.  The value returned
\* is error_norm2_avg = sum / set_size, kept as the pair (num, den).  The
\* rates of the criteria are multiples of the set sizes, so that
\* alpha / set_size is a whole number.  A is what assert_slots left, c what
\* the compute loop left, u what the update loop left.
train_batch(N, a, slots, fixes, tset, past_end, criterion) ==
    LET set_size == Len(tset)
        updated(c, u) ==
            Trained(u.network, c.slots, u.err, c.sum, set_size, u.log,
                    c.computed)
        computed_batch(c) ==
            LET alpha == criterion_call(criterion, c.sum, set_size).ret
            IN  IF c.err # "none"
                THEN Trained(N, c.slots, c.err, 0, set_size, c.log,
                             c.computed)
                ELSE IF alpha = 0
                THEN Trained(N, c.slots, "none", c.sum, set_size, c.log,
                             c.computed)
                ELSE updated(c, batch_update(N, alpha \div set_size, c.slots,
                                             1, c.log))
        asserted(A) ==
            IF A.err # "none"
            THEN Trained(N, A.slots, A.err, 0, set_size, <<>>, <<>>)
            ELSE computed_batch(batch_compute(N, a, A.slots, tset, past_end,
                                              1, 0, <<>>, <<>>))
    IN  asserted(assert_slots(slots, N, fixes, set_size))

(***************************************************************************)
(* model::feed_forward                                                     *)
(***************************************************************************)

\* enum feature_t
NONE == 0
BIAS == 1
LATERAL_PREV == 2

\* BIAS & features, LATERAL_PREV & features
Has(features, bit) == (features \div bit) % 2 = 1

\* w_init(): the k-th call of an initialiser that yields the values of W in
\* turn
w_init(W, k) == W[((k - 1) % Len(W)) + 1]

\* n.set_dendrite(*src, w_init()) for the sources from the k-th on, after c
\* calls of w_init
RECURSIVE set_dendrites(_, _, _, _, _)
set_dendrites_to_self(n, sources, k, W, c) ==
    set_dendrite(n, n.index, w_init(W, c + 1))

set_dendrites(n, sources, k, W, c) ==
    IF k > Len(sources) THEN n
    ELSE set_dendrites(set_dendrite(n, sources[k], w_init(W, c + 1)),
                       sources, k + 1, W, c + 1)

\* The loops of create_topo from the j-th neuron of layer i on (layer 1 is
\* the input layer): prev_layer and layer hold the slots of the neurons of
\* the layer before and of this layer so far, bias is <<0>> if there is a
\* bias source, c counts the calls of w_init
RECURSIVE create_layers(_, _, _, _, _, _, _, _, _, _)
create_layers(N, layers_spec, i, j, prev_layer, layer, bias, features, W, c) ==
    IF i > Len(layers_spec) THEN N
    ELSE IF j > layers_spec[i]
    THEN create_layers(N, layers_spec, i + 1, 1, layer, <<>>, bias, features,
                       W, c)
    ELSE
    LET type    == IF i = 1 THEN INPUT
                   ELSE IF i < Len(layers_spec) THEN INNER ELSE OUTPUT
        N1      == add_neuron(N, type)
        p       == Len(N.m_neurons)
        sources == IF i = 1 THEN <<>>
                   ELSE bias
                        \o (IF Has(features, LATERAL_PREV) THEN layer
                            ELSE <<>>)
                        \o prev_layer
        n       == set_dendrites(At(N1, p), sources, 1, W, c)
    IN  create_layers([N1 EXCEPT !.m_neurons[p + 1] = <<n>>], layers_spec,
                      i, j + 1, prev_layer, Append(layer, p), bias, features,
                      W, c + Len(sources))

create_topo_bias_first(M, layers_spec, W, features) ==
    LET N1 == IF Has(features, BIAS) THEN add_neuron(M, INNER) ELSE M
    IN  IF Len(layers_spec) < 2 THEN [topo |-> N1, err |-> "logic_error"]
        ELSE [topo |-> create_layers(N1, layers_spec, 1, 1, <<>>, <<>>,
                           IF Has(features, BIAS) THEN <<0>> ELSE <<>>,
                           features, W, 0),
              err |-> "none"]

\* void create_topo(layers_spec, w_init) on the m_topo M of a feed_forward
\* under construction (no slot yet): the topology it leaves and what it
\* throws
create_topo(M, layers_spec, W, features) ==
    IF Len(layers_spec) < 2 THEN [topo |-> M, err |-> "logic_error"]
    ELSE LET N1 == IF Has(features, BIAS) THEN add_neuron(M, INNER) ELSE M
         IN  [topo |-> create_layers(N1, layers_spec, 1, 1, <<>>, <<>>,
                           IF Has(features, BIAS) THEN <<0>> ELSE <<>>,
                           features, W, 0),
              err |-> "none"]

fixations_none(features) == <<>>

\* static train::fixations(int features)
fixations(features) ==
    IF Has(features, BIAS) THEN <<[first |-> 0, second |-> 1]>> ELSE <<>>

\* func(const topo_t & topo, int features): the members of the nn_func
\* over topo, junk being what its cells hold, with the bias source set
func(N, features, junk) ==
    LET M == Machine(SeqOf([i \in 1..slot_cnt(N) |->
                               [val |-> [net |-> 0, phi_net |-> junk],
                                fix |-> UNFIXED]],
                           slot_cnt(N)),
                     TRUE, Zeros(slot_cnt(N)))
    IN  IF Has(features, BIAS) THEN const_fx(M, 0, forward_result(1)) ELSE M

-----------------------------------------------------------------------------
(***************************************************************************)
(* Evaluators at work: a network is built, an evaluator is constructed on  *)
(* it, and then forward evaluations, direct fx calls, resets and hard      *)
(* fixations follow in any order.  The network does not change meanwhile.  *)
(***************************************************************************)

\* Most dendrites of a generated network
MaxEdges == 2

\* The values an input vector is made of
InputVals == {1, 5}

\* The constant a cell is hard-fixed to (the bias source is fixed to 1)
PinVals == {1}

\* What a double that was never written may hold
Indeterminate == {0, 1}

VACANT == "vacant"

\* The roles of the slots of the generated networks
Layouts ==
    { <<INPUT, INNER, OUTPUT>>,
      <<INPUT, INPUT, OUTPUT>>,
      <<INPUT, OUTPUT, OUTPUT>> }

Live(layout) == {p \in 0..(Len(layout) - 1) : layout[p + 1] # VACANT}

\* The weight set_dendrite is given for the dendrite of dst from src
EdgeWeight(src, dst) == IF src < dst THEN 2 ELSE 1

\* The dendrites of dst, in the order of their sources from src on: the
\* order set_dendrite was called in
RECURSIVE DendritesFrom(_, _, _, _)
DendritesFrom(edges, dst, src, n) ==
    IF src >= n THEN <<>>
    ELSE (IF <<src, dst>> \in edges
          THEN <<[weight |-> EdgeWeight(src, dst), source |-> src]>>
          ELSE <<>>) \o DendritesFrom(edges, dst, src + 1, n)

RECURSIVE IndexList(_, _, _)
IndexList(layout, t, p) ==
    IF p >= Len(layout) THEN <<>>
    ELSE (IF layout[p + 1] = t THEN <<p>> ELSE <<>>)
         \o IndexList(layout, t, p + 1)

\* The network add_neuron, remove_neuron and set_dendrite build for a
\* layout and the dendrites dends[p + 1] of each neuron p
Built(layout, dends) ==
    NN(Cardinality(Live(layout)),
       SeqOf([i \in 1..Len(layout) |->
                 IF layout[i] = VACANT THEN <<>>
                 ELSE <<[index |-> i - 1, type |-> layout[i],
                         dendrites |-> dends[i]]>>],
             Len(layout)),
       IndexList(layout, INPUT, 0),
       IndexList(layout, OUTPUT, 0))

Generated(layout, edges) ==
    Built(layout,
          SeqOf([i \in 1..Len(layout) |->
                    DendritesFrom(edges, i - 1, 0, Len(layout))],
                Len(layout)))

EdgeSets(layout) ==
    {e \in SUBSET (Live(layout) \X Live(layout)) : Cardinality(e) <= MaxEdges}

D(w, src) == [weight |-> w, source |-> src]

\* One INPUT i (0), two INNER a (1) and b (2), one OUTPUT o (3);
\* a <- b (1), a <- i (1), b <- a (1), o <- a (1)
CycleNet ==
    Built(<<INPUT, INNER, INNER, OUTPUT>>,
          << <<>>, <<D(1, 2), D(1, 0)>>, <<D(1, 1)>>, <<D(1, 1)>> >>)

\* One INPUT i (0), two INNER a (1) and b (2), one OUTPUT o (3);
\* a <- i (2), b <- i (1), b <- a (2), o <- a (1), o <- b (2)
DiamondNet ==
    Built(<<INPUT, INNER, INNER, OUTPUT>>,
          << <<>>, <<D(2, 0)>>, <<D(1, 0), D(2, 1)>>, <<D(1, 1), D(2, 2)>> >>)

\* One INPUT i (0), a slot whose neuron was removed (1), one OUTPUT o (2);
\* o <- i (2)
GapNet == Built(<<INPUT, VACANT, OUTPUT>>, << <<>>, <<>>, <<D(2, 0)>> >>)

Networks ==
    UNION {{Generated(l, e) : e \in EdgeSets(l)} : l \in Layouts}
    \cup {CycleNet, DiamondNet, GapNet}

ActFns == {"identity", "sign"}

\* The evaluator and its machine state as they are now
Eval == Evaluator(kind, act, Net)

Mach == Machine(m_results, m_reset, ev.calls)

\* What an operation was seen to do
Seen(op, arg, hit, output, M) ==
    [op |-> op, arg |-> arg, hit |-> hit, output |-> output, err |-> M.err,
     calls |-> M.calls, reentry |-> M.reentry, diverged |-> M.diverged,
     invoked |-> M.invoked, f_hard |-> M.f_hard]

Pinned == {i \in 1..Len(m_results) : m_results[i].fix = HARDFIX}

\* computation(const nn_t & network): m_results(network.slot_cnt()),
\* m_reset(true).  fixable() does not initialise m_val: a forward_result
\* initialises itself to (0, 0), a Base_t holds whatever the storage held.
InitEval ==
    /\ \E N \in Networks :
          /\ m_size = N.m_size
          /\ m_neurons = N.m_neurons
          /\ m_inputs = N.m_inputs
          /\ m_outputs = N.m_outputs
    /\ topo_op = "none"
    /\ kind \in {"nn_func", "forward"}
    /\ act \in ActFns
    /\ \E junk \in Indeterminate :
          m_results =
              SeqOf([i \in 1..Len(m_neurons) |->
                        [val |-> IF kind = "forward" THEN DefaultFx
                                 ELSE [net |-> 0, phi_net |-> junk],
                         fix |-> UNFIXED]],
                    Len(m_neurons))
    /\ m_reset = TRUE
    /\ ev = Seen("new", <<>>, UNFIXED, <<>>,
                 Machine(<<>>, TRUE, Zeros(Len(m_neurons))))
    /\ FixIdle
    /\ TrainIdle

InputVectors(n) == {SeqOf(v, n) : v \in [1..n -> InputVals]}

Ran(M, op, arg, hit, output) ==
    /\ m_results' = M.results
    /\ m_reset' = M.reset
    /\ ev' = Seen(op, arg, hit, output, M)
    /\ UNCHANGED <<kind, act, topoVars, fixVars, trainVars>>

\* nn_func::operator () on an input vector of the right length
NnFuncApply ==
    \E input \in InputVectors(Len(m_inputs)) :
        /\ kind = "nn_func"
        /\ LET r == nn_func_apply(Eval, Mach, input)
           IN  Ran(r.m, "apply", input, UNFIXED, r.output)

\* forward::operator () on an input vector of the right length
ForwardApply ==
    \E input \in InputVectors(Len(m_inputs)) :
        /\ kind = "forward"
        /\ LET r == forward_apply(Eval, Mach, input)
           IN  Ran(r.m, "apply", input, UNFIXED, r.output)

\* Input vectors one element shorter and one element longer than n
MisfitVectors(n) ==
    {SeqOf([i \in 1..k |-> 1], k) : k \in {n - 1, n + 1} \ {-1}}

\* What *(in_iter++) yields for each input neuron: the elements of the
\* vector and, past its end, whatever the storage holds there
ReadBy(input, n, junk) ==
    SeqOf([i \in 1..n |-> IF i <= Len(input) THEN input[i] ELSE junk], n)

\* nn_func::operator () on an input vector of another length, as the first
\* evaluation of the evaluator
NnFuncApplyMisfit ==
    \E input \in MisfitVectors(Len(m_inputs)), junk \in Indeterminate :
        /\ kind = "nn_func"
        /\ ev.op \in {"new", "fix"}
        /\ LET r == nn_func_apply(Eval, Mach,
                                  ReadBy(input, Len(m_inputs), junk))
           IN  Ran(r.m, "apply_misfit", input, UNFIXED, r.output)

\* forward::operator () on an input vector of another length, as the first
\* evaluation of the evaluator
ForwardApplyMisfit ==
    \E input \in MisfitVectors(Len(m_inputs)), junk \in Indeterminate :
        /\ kind = "forward"
        /\ ev.op \in {"new", "fix"}
        /\ LET r == forward_apply(Eval, Mach,
                                  ReadBy(input, Len(m_inputs), junk))
           IN  Ran(r.m, "apply_misfit", input, UNFIXED, r.output)

\* fx(index) called on the evaluator
FxCall ==
    \E index \in 0..(Len(m_results) - 1) :
        LET r == fx(Eval, Mach, index, <<>>)
        IN  Ran(r.m, "fx", <<index>>, m_results[index + 1].fix,
                IF r.m.err = "none" THEN <<r.val>> ELSE <<>>)

\* fx(index) called on the evaluator through a const reference
FxConstCall ==
    \E index \in 0..(Len(m_results) - 1) :
        LET r == fx_const(Mach, index)
        IN  Ran(r.m, "fx_const", <<index>>, m_results[index + 1].fix,
                IF r.m.err = "none" THEN <<r.val>> ELSE <<>>)

\* reset() called on the evaluator
ResetGrid ==
    \E M \in {computation_reset(Mach)} :
        /\ kind # "none"
        /\ Ran(M, IF m_reset THEN "reset_skipped" ELSE "reset", <<>>, UNFIXED,
               <<>>)

\* forward::fix(n, phi), or const_fx(n, phi) of a class derived from nn_func,
\* called as the library calls them: once the evaluator is constructed and
\* before it is used.  At most one cell is hard-fixed.
HardFix ==
    \E n \in 0..(Len(m_results) - 1), phi \in PinVals :
        /\ ev.op \in {"new", "fix"}
        /\ Pinned \subseteq {n + 1}
        /\ Ran(forward_fix(Mach, n, phi), "fix", <<n, phi>>,
               m_results[n + 1].fix, <<>>)

NextEval ==
    \/ NnFuncApply
    \/ ForwardApply
    \/ NnFuncApplyMisfit
    \/ ForwardApplyMisfit
    \/ FxCall
    \/ FxConstCall
    \/ ResetGrid
    \/ HardFix

SpecEval == InitEval /\ [][NextEval]_vars

\* A HARD cell of the grid keeps its state and its value through every
\* operation of the evaluator: resets, evaluations, fx calls, hard fixations
GridHardAbsorbing ==
    [][\A i \in 1..Len(m_results) :
           m_results[i].fix = HARDFIX => m_results'[i] = m_results[i]]_vars

\* C7: after every call of reset() on a grid every cell that is not HARD is
\* UNFIXED, whether the call reset the cells or was skipped; and in every
\* reachable state the reset flag is set only if no cell is SOFT-fixed.
C7_ResetFlag ==
    /\ m_reset => \A i \in 1..Len(m_results) : m_results[i].fix # SOFTFIX
    /\ ev.op \in {"reset", "reset_skipped"} =>
           /\ m_reset
           /\ \A i \in 1..Len(m_results) :
                  m_results[i].fix # HARDFIX => m_results[i].fix = UNFIXED

\* reset() was called with the flag set on a grid that holds a HARD cell
\* next to cells that are not fixed
C7_Witness ==
    /\ ev.op = "reset_skipped"
    /\ Pinned # {}
    /\ \E i \in 1..Len(m_results) : m_results[i].fix = UNFIXED

C2_AtMostOnce ==
    /\ \A i \in 1..Len(ev.calls) : ev.calls[i] <= 1
    /\ ~ev.f_hard
    /\ \A i \in Pinned : (i - 1) \notin ev.invoked
    /\ (ev.op = "fx" /\ ev.hit # UNFIXED) =>
           /\ ev.invoked = {}
           /\ ev.err = "none"
           /\ ev.output = <<m_results[ev.arg[1] + 1].val>>

\* fx(index) was called for a neuron f had been invoked for since the reset
C2_Witness ==
    /\ ev.op = "fx"
    /\ ev.hit = SOFTFIX
    /\ ev.calls[ev.arg[1] + 1] = 1
    /\ ev.invoked = {}

\* The sources of the dendrites of the neuron at p
Sources(N, p) ==
    {At(N, p).dendrites[k].source : k \in 1..Len(At(N, p).dendrites)}

\* The neurons S and those reached from them along at most k dendrites
RECURSIVE Upstream(_, _, _)
Upstream(N, S, k) ==
    IF k = 0 THEN S
    ELSE Upstream(N, S \cup UNION {Sources(N, q) : q \in S}, k - 1)

Acyclic(N) ==
    \A p \in LiveSlots(N) :
        p \notin Upstream(N, Sources(N, p), Len(N.m_neurons))

\* The activation function as a function of numbers
Phi(a, x) ==
    IF a = "identity" THEN x ELSE IF x > 0 THEN 1 ELSE IF x < 0 THEN -1 ELSE 0

\* phi(n) = act_fn(sum over the dendrites d of n of d.weight * phi(d.source)),
\* with the input neurons as its base case
RECURSIVE MathPhi(_, _, _, _)
RECURSIVE MathNet(_, _, _, _, _)
MathNet(N, a, input, dends, k) ==
    IF k > Len(dends) THEN 0
    ELSE dends[k].weight * MathPhi(N, a, input, dends[k].source)
         + MathNet(N, a, input, dends, k + 1)

MathPhi(N, a, input, p) ==
    IF At(N, p).type = INPUT
    THEN input[CHOOSE k \in 1..Len(N.m_inputs) : N.m_inputs[k] = p]
    ELSE Phi(a, MathNet(N, a, input, At(N, p).dendrites, 1))

\* C3: on an acyclic network without hard-fixed cells the forward driver,
\* given an input vector of the right length, returns for each output the
\* value of the recursive definition; every cell it fixed holds that value
\* and none was computed from a cell found while its f was running.
C3_ForwardIsPhi ==
    (ev.op = "apply" /\ Acyclic(Net) /\ Pinned = {}) =>
        /\ ev.err = "none"
        /\ ev.output = SeqOf([k \in 1..Len(m_outputs) |->
                                 MathPhi(Net, act, ev.arg, m_outputs[k])],
                             Len(m_outputs))
        /\ \A i \in 1..Len(m_results) :
               m_results[i].fix = SOFTFIX =>
                   m_results[i].val.phi_net = MathPhi(Net, act, ev.arg, i - 1)
        /\ ev.reentry = {}

\* The driver ran on the network where b and o share the sources i and a
C3_Witness ==
    /\ ev.op = "apply"
    /\ Net = DiamondNet
    /\ act = "identity"
    /\ ev.arg = <<5>>
    /\ ev.output = <<60>>

\* C4: on the network i, a, b, o with a <- b, b <- a, a <- i, o <- a, all of
\* weight 1, and identity activation, a forward evaluation with input v
\* terminates and leaves phi_net(a) = v: b, computed while f of a is
\* running, finds a SOFT-fixed with the default and becomes 0.
C4_CycleBreak ==
    (/\ ev.op = "apply"
     /\ Net = CycleNet
     /\ kind = "forward"
     /\ act = "identity"
     /\ Pinned = {}) =>
        /\ ev.err = "none"
        /\ ~ev.diverged
        /\ m_results[2].val = [net |-> ev.arg[1], phi_net |-> ev.arg[1]]
        /\ m_results[3].val = DefaultFx
        /\ ev.reentry = {[index |-> 1, fix |-> SOFTFIX, val |-> DefaultFx]}
        /\ ev.output = <<ev.arg[1]>>

\* The forward evaluation of the scenario: input 5
C4_Witness ==
    /\ ev.op = "apply"
    /\ Net = CycleNet
    /\ kind = "forward"
    /\ act = "identity"
    /\ Pinned = {}
    /\ ev.arg = <<5>>
    /\ m_results[2].val.phi_net = 5

\* C5: two consecutive forward evaluations on the same evaluator with the
\* same input return identical output vectors.
C5_SameOutput ==
    [][(ev.op = "apply" /\ ev'.op = "apply" /\ ev'.arg = ev.arg) =>
           (ev'.output = ev.output /\ ev'.err = ev.err)]_vars

\* C18: the forward driver fails with ShapeError (a std::range_error)
\* whenever the length of the input vector differs from the number of input
\* neurons, shorter or longer, and then returns no output.
C18_ShapeError ==
    ev.op = "apply_misfit" => (ev.err = "range_error" /\ ev.output = <<>>)

(***************************************************************************)
(* The trainer: a feed_forward model with its function() and training(),  *)
(* or a backpropagation over a network built by hand                      *)
(***************************************************************************)

\* Training calls made on one trainer
MaxCalls == 2

\* A training call is made while no weight is beyond this
MaxWeight == 10

\* The sizes of the training sets
BatchSizes == {1, 2}

\* The values w_init yields in turn
WInit == <<1, 2>>

Pin(index, phi) == [first |-> index, second |-> phi]

Sample(input, output) == [first |-> input, second |-> output]

\* One INPUT i (0), one INNER h (1), one OUTPUT o (2); h <- i (1), o <- i (2):
\* h leads nowhere
DeadEndNet ==
    Built(<<INPUT, INNER, OUTPUT>>, << <<>>, <<D(1, 0)>>, <<D(2, 0)>> >>)

\* One INPUT i (0), one INNER h (1), one OUTPUT o (2); h <- i (1), o <- h (2)
ChainNet ==
    Built(<<INPUT, INNER, OUTPUT>>, << <<>>, <<D(1, 0)>>, <<D(2, 1)>> >>)

\* One INPUT i (0), one OUTPUT o (1), one INNER x (2); o <- i (1), o <- x (2):
\* no input reaches x
UnreachedNet ==
    Built(<<INPUT, OUTPUT, INNER>>, << <<>>, <<D(1, 0), D(2, 2)>>, <<>> >>)

\* A trainer and the network it trains; function tells that the network
\* has an evaluator of its function too
Setup(N, function, features, fixes) ==
    [network |-> N, function |-> function, features |-> features,
     fixes |-> fixes]

\* feed_forward(layers_spec, w_init, features) with its training() and,
\* if function, its function()
Model(layers_spec, features, function) ==
    Setup(create_topo(NN(0, <<>>, <<>>, <<>>), layers_spec, WInit,
                      features).topo, function, features,
          fixations(features))

\* backpropagation(nn, fixes) over a network built by hand
Trainer(N, fixes) == Setup(N, FALSE, NONE, fixes)

TrainSetups ==
    { Model(<<1, 1>>, NONE, FALSE), Model(<<1, 1>>, BIAS, TRUE),
      Model(<<1, 2>>, BIAS + LATERAL_PREV, FALSE),
      Trainer(ChainNet, <<>>),
      Trainer(DeadEndNet, <<>>),
      Trainer(UnreachedNet, <<>>),
      Trainer(ChainNet, <<Pin(1, 1)>>),
      Trainer(ChainNet, <<Pin(0, 1)>>) }

\* What a training call was seen to do: the call and its arguments, the
\* network and the number of slots it found, what it threw, returned and
\* did, and the number of calls made on the trainer
TrainSeen(op, tset, criterion, T, N, slot_cnt_before, calls) ==
    [op |-> op, tset |-> tset, criterion |-> criterion, err |-> T.err,
     ret |-> T.ret, log |-> T.log, computed |-> T.computed, before |-> N,
     slots |-> slot_cnt_before, calls |-> calls]

NotTrained == Trained(clear(Net), <<>>, "none", 0, 1, <<>>, <<>>)

\* const_learning_factor(0, 2), const_learning_factor(0) and
\* const_learning_factor(1, 2): the rate is a multiple of every set size
Criteria == {Criterion(0, 2), Criterion(0, 0), Criterion(1, 2)}

\* adaptive_learning_factor(1, 2, 1, -1, 2, 1): every rate it comes to is a
\* multiple of every set size
AdaptiveCriteria == {Adaptive(1, 2, 1, -1, 2, 1)}

\* The criterion object the caller constructs and passes to every call
Passable == Criteria \cup AdaptiveCriteria

\* feed_forward::function() and feed_forward::training(), or
\* backpropagation(nn, fixes): no slot yet
InitTrain ==
    /\ \E S \in TrainSetups :
          /\ m_size = S.network.m_size
          /\ m_neurons = S.network.m_neurons
          /\ m_inputs = S.network.m_inputs
          /\ m_outputs = S.network.m_outputs
          /\ m_features = S.features
          /\ m_fixes = S.fixes
          /\ kind = IF S.function THEN "nn_func" ELSE "none"
          /\ \E junk \in Indeterminate :
                m_results = IF S.function
                            THEN func(S.network, S.features, junk).results
                            ELSE <<>>
    /\ topo_op = "none"
    /\ act = "identity"
    /\ m_reset = TRUE
    /\ ev = Seen("new", <<>>, UNFIXED, <<>>,
                 Machine(<<>>, TRUE, Zeros(Len(m_neurons))))
    /\ m_slots = <<>>
    /\ tr = TrainSeen("new", <<>>, Criterion(0, 0), NotTrained, Net, 0, 0)
    /\ crit \in Passable
    /\ FixIdle

\* The samples of a training set: the input holds a value for each input
\* neuron, the target one for each output neuron or one too few
Samples ==
    { Sample(SeqOf([i \in 1..Len(m_inputs) |-> 1], Len(m_inputs)),
             SeqOf([i \in 1..n |-> t], n)) :
        n \in {Len(m_outputs) - 1, Len(m_outputs)}, t \in {0, 3} }

TrainingSets ==
    UNION {{SeqOf(v, n) : v \in [1..n -> Samples]} : n \in BatchSizes}

\* The call got as far as criterion(error_norm2)
ReachedCriterion(T) ==
    /\ T.computed # <<>>
    /\ \A i \in 1..Len(T.computed) : T.computed[i].err = "none"

\* The weights of the network are within the bound
Trainable ==
    \A p \in LiveSlots(Net) : \A k \in 1..Len(At(Net, p).dendrites) :
        /\ At(Net, p).dendrites[k].weight <= MaxWeight
        /\ At(Net, p).dendrites[k].weight >= -MaxWeight

Did_train(T, op, tset, criterion) ==
    /\ m_size' = T.network.m_size
    /\ m_neurons' = T.network.m_neurons
    /\ m_inputs' = T.network.m_inputs
    /\ m_outputs' = T.network.m_outputs
    /\ m_slots' = T.slots
    /\ tr' = TrainSeen(op, tset, criterion, T, Net, Len(m_slots),
                       tr.calls + 1)
    /\ crit' = IF ReachedCriterion(T)
               THEN criterion_call(criterion, T.ret.num, T.ret.den).self
               ELSE criterion
    /\ UNCHANGED <<topo_op, m_features, m_fixes, evalVars, fixVars>>

\* The on-line operator () of the trainer
TrainOne ==
    \E sample \in Samples, criterion \in {crit} :
        /\ tr.calls < MaxCalls
        /\ Trainable
        /\ Did_train(train_one(Net, act, m_slots, m_fixes, sample.first,
                               sample.second, criterion),
                     "train_one", <<sample>>, criterion)

\* The batch operator () of the trainer.  When the list holds more slots
\* than the set has samples, the loop reads past the end of the set.
TrainBatch ==
    \E tset \in TrainingSets, criterion \in {crit}, past_end \in Samples :
        /\ tr.calls < MaxCalls
        /\ Trainable
        /\ Len(m_slots) <= Len(tset) => past_end = tset[1]
        /\ Did_train(train_batch(Net, act, m_slots, m_fixes, tset, past_end,
                                 criterion),
                     "train_batch", tset, criterion)

NextTrain ==
    \/ TrainOne
    \/ TrainBatch
    \/ NnFuncApply
    \/ ResetGrid

SpecTrain == InitTrain /\ [][NextTrain]_vars

Training == tr.op \in {"train_one", "train_batch"}

Stages(k) == {j \in 1..Len(tr.log) : tr.log[j].stage = k}

\* C13: in every training call the backward pass of a slot is entered right
\* after the forward pass of that slot has returned; no update is entered
\* before the forward and the backward pass of every sample of the call
\* have returned, and no pass is entered after an update: in batch mode all
\* compute calls precede the first update.
C13_Ordered ==
    Training =>
        /\ \A j \in Stages("backward") :
               j > 1 /\ tr.log[j - 1] = Step("forward", tr.log[j].slot)
        /\ \A j \in Stages("update") :
               /\ \A k \in Stages("forward") \cup Stages("backward") : k < j
               /\ Cardinality(Stages("forward")) >= Len(tr.tset)
               /\ Cardinality(Stages("backward")) >= Len(tr.tset)
               /\ \A k \in 1..Len(tr.tset) :
                      /\ \E f_k \in Stages("forward") : tr.log[f_k].slot = k
                      /\ \E b_k \in Stages("backward") : tr.log[b_k].slot = k

\* A batch of two samples was computed on two slots and then applied
C13_Witness ==
    /\ tr.op = "train_batch"
    /\ tr.err = "none"
    /\ tr.log = <<Step("forward", 1), Step("backward", 1),
                  Step("forward", 2), Step("backward", 2),
                  Step("update", 1), Step("update", 2)>>

\* The slots update was called for, in order
Updated == SeqOf([k \in 1..Cardinality(Stages("update")) |->
                     tr.log[Len(tr.log) - Cardinality(Stages("update")) + k].slot],
                 Cardinality(Stages("update")))

\* The rate the criterion of the call returned for the value num / den
Rate(num, den) == criterion_call(tr.criterion, num, den).ret

\* C14: in every batch call, whatever was called before, the i-th compute
\* call is made on the i-th slot with the i-th sample of the set and there
\* are no more than |set| of them, exactly |set| if none raises; when the
\* criterion returns a non-zero rate, update is called once for each of the
\* slots 1 .. |set| and for no other.
C14_PerSample ==
    tr.op = "train_batch" =>
        /\ Len(tr.computed) <= Len(tr.tset)
        /\ \A i \in 1..Len(tr.computed) :
               /\ i <= Len(tr.tset)
               /\ tr.computed[i].slot = i
               /\ tr.computed[i].input = tr.tset[i].first
               /\ tr.computed[i].output = tr.tset[i].second
        /\ tr.err = "none" =>
               /\ Len(tr.computed) = Len(tr.tset)
               /\ Updated = IF Rate(tr.ret.num, tr.ret.den) = 0 THEN <<>>
                             ELSE SeqOf([k \in 1..Len(tr.tset) |-> k],
                                        Len(tr.tset))

\* The same, for the batch calls that find no more slots than samples
C14_NoStaleSlots ==
    (tr.op = "train_batch" /\ tr.slots <= Len(tr.tset)) => C14_PerSample

\* The output vector of a forward pass over the network N, with the pins of
\* the trainer, on input
Actual(N, input) ==
    forward_apply(Evaluator("forward", act, N),
                  MachineOf(fix_slot(comp_slot(N), m_fixes, 1).slot.fw),
                  input).output

\* The sum over the outputs of (actual_i - target_i)^2, from the k-th on
RECURSIVE SquaredError(_, _, _)
SquaredError(actual, target, k) ==
    IF k > Len(actual) THEN 0
    ELSE (actual[k] - target[k]) * (actual[k] - target[k])
         + SquaredError(actual, target, k + 1)

\* The sum of the squared errors of the samples of the set from the i-th on,
\* with the weights the call found
RECURSIVE SetError(_)
SetError(i) ==
    IF i > Len(tr.tset) THEN 0
    ELSE SquaredError(Actual(tr.before, tr.tset[i].first),
                      tr.tset[i].second, 1)
         + SetError(i + 1)

\* C15: a training call that does not raise returns the sum over the
\* outputs of (actual_i - target_i)^2, actual being the output of the
\* forward pass of that call with the weights as the call found them; a
\* batch call returns the sum of these values over its samples divided by
\* the number of samples.
C15_ErrorNorm ==
    (Training /\ tr.err = "none") =>
        /\ \A i \in 1..Len(tr.tset) :
               tr.computed[i].actual = Actual(tr.before, tr.tset[i].first)
        /\ tr.ret.den = Len(tr.tset)
        /\ tr.ret.num = SetError(1)

\* The same, for the calls that find no more slots than samples
C15_NoStaleSlots == tr.slots <= Len(tr.tset) => C15_ErrorNorm

\* The on-line call of a newly constructed trainer on the first sample of
\* the set, with the criterion of the last call and the weights it found
OnLine ==
    train_one(tr.before, act, <<>>, m_fixes, tr.tset[1].first,
              tr.tset[1].second, tr.criterion)

\* C16: on a newly constructed trainer, the batch call on a set of the one
\* sample (x, y) with a constant criterion raises, returns and leaves on
\* every dendrite what the on-line call on (x, y) with that criterion does
\* on a newly constructed trainer, from the same weights.
C16_BatchOfOne ==
    (tr.op = "train_batch" /\ Len(tr.tset) = 1 /\ tr.calls = 1) =>
        /\ OnLine.err = tr.err
        /\ tr.err = "none" =>
               OnLine.ret.num * tr.ret.den = tr.ret.num * OnLine.ret.den
        /\ OnLine.network.m_neurons = m_neurons

\* The first call of a trainer was a batch of one sample and it changed the
\* weights of a network with a hidden neuron
C16_Witness ==
    /\ tr.op = "train_batch"
    /\ Len(tr.tset) = 1
    /\ tr.calls = 1
    /\ tr.err = "none"
    /\ tr.before = ChainNet
    /\ m_fixes = <<>>
    /\ \A p \in {1, 2} :
           At(Net, p).dendrites[1].weight
               # At(ChainNet, p).dendrites[1].weight

\* The call raised and its last compute call, if it made one, raised: it
\* raised in assert_slots, in a forward pass, on the length of a target or
\* in a backward pass, before its update step
FailedBeforeUpdate ==
    /\ Training
    /\ tr.err # "none"
    /\ tr.computed # <<>> => tr.computed[Len(tr.computed)].err # "none"

\* C17: when a training call fails before its update step, for any sample
\* of a batch, every dendrite weight is what it was before the call and no
\* update was entered.
C17_WeightsKept ==
    FailedBeforeUpdate =>
        /\ m_neurons = tr.before.m_neurons
        /\ Stages("update") = {}

\* A batch call computed its first sample and raised on the target of the
\* second, with a criterion whose rate is not zero
C17_Witness ==
    /\ tr.op = "train_batch"
    /\ Len(tr.tset) = 2
    /\ Len(tr.computed) = 2
    /\ tr.computed[1].err = "none"
    /\ tr.computed[1].error_norm2 > 0
    /\ tr.computed[2].err = "logic_error"
    /\ tr.err = "logic_error"
    /\ tr.criterion.m_alpha # 0

\* C20: for every pin (p, phi) of the trainer, in every slot the trainer
\* has created the forward cell of p holds (0, phi) and the backward cell
\* of p holds delta 0, and the last training call left the weight of every
\* dendrite of p as it found it.
C20_PinsHold ==
    \A k \in 1..Len(m_fixes) :
        LET p == m_fixes[k].first
        IN  /\ \A i \in 1..Len(m_slots) :
                   /\ m_slots[i].fw.results[p + 1].val
                          = forward_result(m_fixes[k].second)
                   /\ m_slots[i].bw.results[p + 1].val = backward_result(0)
            /\ Training => At(Net, p).dendrites = At(tr.before, p).dendrites

\* The hidden neuron of the chain is pinned, two slots exist, and a call
\* changed the weight of the dendrite of the output neuron
C20_Witness ==
    /\ m_fixes = <<Pin(1, 1)>>
    /\ Len(m_slots) = 2
    /\ Training
    /\ tr.err = "none"
    /\ Stages("update") # {}
    /\ At(Net, 2).dendrites # At(tr.before, 2).dendrites
    /\ At(Net, 1).dendrites = <<D(1, 0)>>

\* C19: for a feed_forward model built with BIAS, the cell of the bias
\* neuron (index 0) is fixed and holds phi_net 1 in the evaluator function()
\* returned and in the forward stage of every slot of the trainer
\* training() returned, whatever evaluations, training calls and resets
\* were made.
C19_BiasIsOne ==
    Has(m_features, BIAS) =>
        /\ kind = "nn_func" =>
               fixed(m_results[1]) /\ m_results[1].val.phi_net = 1
        /\ \A i \in 1..Len(m_slots) :
               /\ fixed(m_slots[i].fw.results[1])
               /\ m_slots[i].fw.results[1].val.phi_net = 1

\* The function of a model with bias was evaluated after a reset and after
\* two training calls, the last of which changed the weights on two slots
C19_Witness ==
    /\ Has(m_features, BIAS)
    /\ kind = "nn_func"
    /\ ev.op = "apply"
    /\ ev.err = "none"
    /\ ~m_reset
    /\ tr.calls = 2
    /\ tr.err = "none"
    /\ Len(m_slots) = 2
    /\ Stages("update") # {}

-----------------------------------------------------------------------------
(* model::feed_forward: construction                                       *)

\* Longest layer specification and largest layer a test builds
MaxLayers == 3
MaxLayerSize == 2

LayerSpecs == UNION {[1..n -> 0..MaxLayerSize] : n \in 0..MaxLayers}

FeatureSets == {NONE, BIAS, LATERAL_PREV, BIAS + LATERAL_PREV}

\* What a call on the model object was seen to do: the call, its arguments
\* and what it threw
BuildSeen(op, layers_spec, features, err) ==
    [op |-> op, layers_spec |-> layers_spec, features |-> features,
     err |-> err]

\* feed_forward(): m_features(DEFAULT), m_topo by nn() {} whose m_size is
\* not initialised
InitBuild ==
    /\ m_features = NONE
    /\ m_size \in {0, HugeSize}
    /\ m_neurons = <<>>
    /\ m_inputs = <<>>
    /\ m_outputs = <<>>
    /\ topo_op = "none"
    /\ m_fixes = <<>>
    /\ m_slots = <<>>
    /\ tr = BuildSeen("new", <<>>, NONE, "none")
    /\ crit = NoCrit
    /\ FixIdle
    /\ EvalIdle

\* The model object exists: no constructor threw
Exists == tr.err = "none" \/ tr.op # "create_topo"

\* feed_forward(layers_spec, w_init, features): m_features(features), m_topo
\* by nn() {}, then create_topo; the state is the object as the constructor
\* left it, also when it threw
Construct ==
    /\ tr.op = "new"
    /\ \E layers_spec \in LayerSpecs, features \in FeatureSets,
          junk \in {0, HugeSize} :
          LET built == create_topo(NN(junk, <<>>, <<>>, <<>>), layers_spec,
                                   WInit, features)
          IN  /\ m_features' = features
              /\ m_size' = built.topo.m_size
              /\ m_neurons' = built.topo.m_neurons
              /\ m_inputs' = built.topo.m_inputs
              /\ m_outputs' = built.topo.m_outputs
              /\ tr' = BuildSeen("create_topo", layers_spec, features,
                                 built.err)
    /\ UNCHANGED <<fixVars, evalVars, topo_op, m_fixes, m_slots, crit>>

\* void features(int feature_bits)
Features ==
    /\ Exists
    /\ \E feature_bits \in FeatureSets :
          IF size(Net) # 0
          THEN /\ tr' = BuildSeen("features", <<>>, feature_bits,
                                  "logic_error")
               /\ UNCHANGED m_features
          ELSE /\ tr' = BuildSeen("features", <<>>, feature_bits, "none")
               /\ m_features' = feature_bits
    /\ UNCHANGED <<fixVars, evalVars, topoVars, m_fixes, m_slots, crit>>

\* topology().clear()
TopologyClear ==
    /\ Exists
    /\ \E N \in {clear(Net)} :
          /\ m_size' = N.m_size
          /\ m_neurons' = N.m_neurons
          /\ m_inputs' = N.m_inputs
          /\ m_outputs' = N.m_outputs
    /\ tr' = BuildSeen("clear", <<>>, m_features, "none")
    /\ UNCHANGED <<fixVars, evalVars, topo_op, m_features, m_fixes, m_slots,
                   crit>>

NextBuild ==
    \/ Construct
    \/ Features
    \/ TopologyClear

SpecBuild == InitBuild /\ [][NextBuild]_vars

\* The constructor built the topology
WasBuilt == tr.op = "create_topo" /\ tr.err = "none"

\* C21: the topology the feed-forward constructor builds from a layer
\* specification of at least two layers, under every combination of BIAS
\* and LATERAL_PREV, is acyclic: the source of every dendrite has a smaller
\* index than the neuron holding it, and neither the bias neuron (index 0
\* under BIAS) nor an input neuron has a dendrite.
C21_Acyclic ==
    /\ (tr.op = "create_topo" /\ Len(tr.layers_spec) >= 2) => WasBuilt
    /\ WasBuilt =>
           \A p \in LiveSlots(Net) :
              LET n == At(Net, p)
              IN  /\ n.index = p
                  /\ \A k \in 1..Len(n.dendrites) :
                         /\ Occupied(Net, n.dendrites[k].source)
                         /\ At(Net, n.dendrites[k].source).index < n.index
                  /\ n.type = INPUT => n.dendrites = <<>>
                  /\ (Has(m_features, BIAS) /\ p = 0) => n.dendrites = <<>>

\* A three-layer model with bias and lateral synapses was built, and a
\* neuron of it has a dendrite from a sibling of its layer
C21_Witness ==
    /\ WasBuilt
    /\ Len(tr.layers_spec) = 3
    /\ m_features = BIAS + LATERAL_PREV
    /\ \E p \in LiveSlots(Net) :
          \E k \in 1..Len(At(Net, p).dendrites) :
             LET src == At(Net, p).dendrites[k].source
             IN  src # 0 /\ At(Net, src).type = At(Net, p).type

\* C22: the feed-forward constructor throws (std::logic_error) exactly when
\* the layer specification has fewer than two layers, and the topology
\* then holds no neuron, not even the bias neuron.
C22_TooFewLayers ==
    tr.op = "create_topo" =>
        /\ tr.err = "logic_error" <=> Len(tr.layers_spec) < 2
        /\ tr.err # "none" =>
               /\ m_neurons = <<>>
               /\ m_inputs = <<>>
               /\ m_outputs = <<>>

\* A one-layer model with bias was asked for
C22_Witness ==
    /\ tr.op = "create_topo"
    /\ Len(tr.layers_spec) = 1
    /\ tr.layers_spec[1] > 0
    /\ Has(tr.features, BIAS)
    /\ tr.err = "logic_error"

-----------------------------------------------------------------------------
(* ml::const_learning_factor and ml::adaptive_learning_factor on their own *)

\* Largest numerator of an error norm passed to a criterion, and the number
\* of calls made on one criterion object
MaxErr2 == 3
MaxCritCalls == 3

\* The error norms passed: num / den
ErrNorms == {[num |-> n, den |-> d] : n \in 0..MaxErr2, d \in {1, 2}}

ConstCriteria == {Criterion(sigma, alpha) : sigma \in {0, 1}, alpha \in {0, 2}}

StandaloneAdaptive ==
    {Adaptive(sigma, 1, cmax, cmin, 2, 3) :
        sigma \in {0, 1}, cmax \in {1, 2}, cmin \in {-2, -1}}

\* What a call on the criterion was seen to do: the argument, the object
\* before the call, the value returned, the number of calls so far and the
\* object as constructed
CritSeen(op, en2, before, ret, calls, made) ==
    [op |-> op, en2 |-> en2, before |-> before, ret |-> ret,
     calls |-> calls, made |-> made]

InitCrit ==
    /\ crit \in ConstCriteria \cup StandaloneAdaptive
    /\ tr = CritSeen("new", [num |-> 0, den |-> 1], crit, 0, 0, crit)
    /\ m_features = 0
    /\ m_fixes = <<>>
    /\ m_slots = <<>>
    /\ TopoIdle
    /\ FixIdle
    /\ EvalIdle

\* const_learning_factor::operator ()
ConstCall ==
    /\ crit.kind = "const"
    /\ tr.calls < MaxCritCalls
    /\ \E en2 \in ErrNorms :
          /\ crit' = const_learning_factor_self(crit, en2.num, en2.den)
          /\ tr' = CritSeen("call", en2, crit,
                            const_learning_factor(crit, en2.num, en2.den),
                            tr.calls + 1, tr.made)
    /\ UNCHANGED <<fixVars, topoVars, evalVars, m_features, m_fixes, m_slots>>

\* adaptive_learning_factor::operator ()
AdaptiveCall ==
    /\ crit.kind = "adaptive"
    /\ tr.calls < MaxCritCalls
    /\ \E en2 \in ErrNorms :
          LET called == adaptive_learning_factor(crit, en2.num, en2.den)
          IN  /\ crit' = called.self
              /\ tr' = CritSeen("call", en2, crit, called.ret, tr.calls + 1,
                                tr.made)
    /\ UNCHANGED <<fixVars, topoVars, evalVars, m_features, m_fixes, m_slots>>

NextCrit ==
    \/ ConstCall
    \/ AdaptiveCall

SpecCrit == InitCrit /\ [][NextCrit]_vars

\* err2 > sigma, err2 < last-err2 for the error norm of the last call
AboveSigma == tr.en2.num > tr.made.m_sigma * tr.en2.den

BelowLast ==
    tr.en2.num * tr.before.m_last_en2.den
        < tr.before.m_last_en2.num * tr.en2.den

\* C23: a call of the constant criterion constructed with (sigma, alpha)
\* on err2 returns alpha and leaves update() true if err2 > sigma, returns 0
\* and leaves update() false otherwise, whatever calls were made before.
C23_ConstCriterion ==
    (tr.op = "call" /\ crit.kind = "const") =>
        /\ crit.m_update <=> AboveSigma
        /\ tr.ret = IF AboveSigma THEN tr.made.m_alpha ELSE 0
        /\ crit.m_alpha = tr.made.m_alpha
        /\ crit.m_sigma = tr.made.m_sigma

\* A constant criterion with non-zero rate, after a call that left update()
\* true, was called on an error norm not above sigma
C23_Witness ==
    /\ tr.op = "call"
    /\ crit.kind = "const"
    /\ tr.made.m_alpha # 0
    /\ tr.calls >= 2
    /\ tr.before.m_update
    /\ ~AboveSigma
    /\ tr.en2.num > 0

\* C24: a call of the adaptive criterion on err2 > sigma leaves update()
\* true; if err2 < last-err2 the counter is incremented and, once it is at
\* least cmax, set to 0 and alpha multiplied by inc_coef; otherwise the
\* counter is decremented and, once it is at most cmin, set to 0 and alpha
\* multiplied by dec_coef; err2 is stored as last-err2 and the adjusted
\* alpha returned.  The first call, with err2 > sigma >= 0, takes the
\* second branch.
C24_AdaptiveCriterion ==
    (tr.op = "call" /\ crit.kind = "adaptive" /\ AboveSigma) =>
        LET b   == tr.before
            up  == b.m_conv_cnt + 1
            dn  == b.m_conv_cnt - 1
        IN  /\ crit.m_update
            /\ BelowLast =>
                   IF up >= b.m_conv_cmax
                   THEN /\ crit.m_conv_cnt = 0
                        /\ crit.m_alpha = b.m_alpha * b.m_alpha_incf
                   ELSE /\ crit.m_conv_cnt = up
                        /\ crit.m_alpha = b.m_alpha
            /\ ~BelowLast =>
                   IF dn <= b.m_conv_cmin
                   THEN /\ crit.m_conv_cnt = 0
                        /\ crit.m_alpha = b.m_alpha * b.m_alpha_decf
                   ELSE /\ crit.m_conv_cnt = dn
                        /\ crit.m_alpha = b.m_alpha
            /\ crit.m_last_en2 = tr.en2
            /\ tr.ret = crit.m_alpha
            /\ (tr.calls = 1 /\ b.m_sigma >= 0) => ~BelowLast

\* An adaptive criterion whose rate was lowered on divergence was called on
\* a smaller error norm above sigma and raised its rate
C24_Witness ==
    /\ tr.op = "call"
    /\ crit.kind = "adaptive"
    /\ AboveSigma
    /\ BelowLast
    /\ tr.calls = 3
    /\ tr.before.m_alpha = tr.made.m_alpha * tr.made.m_alpha_decf
    /\ crit.m_alpha = tr.before.m_alpha * tr.made.m_alpha_incf
    /\ crit.m_conv_cnt = 0

\* The last two calls were batch calls on the same set by a trainer that
\* holds a slot for each sample of it and no other
SameSetAgain ==
    /\ tr.op = "train_batch"
    /\ tr'.op = "train_batch"
    /\ tr'.calls = tr.calls + 1
    /\ tr'.tset = tr.tset
    /\ Len(m_slots) = Len(tr.tset)

\* C25: when a batch call on a set returns with update() of the criterion
\* false, the next batch call of the same trainer on the same set with the
\* same criterion object changes no weight, returns the same average and
\* leaves update() false again; so does every later one.
C25_NoUpdateForGood ==
    [][(SameSetAgain /\ tr.err = "none" /\ ~crit.m_update) =>
          /\ m_neurons' = m_neurons
          /\ tr'.err = "none"
          /\ tr'.ret = tr.ret
          /\ ~crit'.m_update
          /\ crit' = crit]_vars

\* A second batch call on a set of two samples was made with a criterion
\* that the first call on that set left with update() false, the average
\* error being above zero
C25_Witness ==
    /\ tr.op = "train_batch"
    /\ tr.calls = 2
    /\ tr.err = "none"
    /\ Len(tr.tset) = 2
    /\ tr.slots = 2
    /\ tr.criterion.m_alpha # 0
    /\ ~tr.criterion.m_update
    /\ ~crit.m_update
    /\ tr.ret.num > 0

-----------------------------------------------------------------------------
(* io::serialise and io::deserialise (io/nn.hxx)                           *)

\* The text is a sequence of lines, each a record of the words the regular
\* expressions of deserialise tell apart; a number in it is the sequence of
\* its decimal digits as the stream operators write and read them.

\* Significant digits operator << writes for a floating-point value: the
\* precision of a stream that was not given another one
StreamPrecision == 6

RECURSIVE Pow10(_)
Pow10(k) == IF k = 0 THEN 1 ELSE 10 * Pow10(k - 1)

\* out << n for a size_t
RECURSIVE Decimal(_)
Decimal(n) == IF n < 10 THEN <<n>> ELSE Append(Decimal(n \div 10), n % 10)

\* ss >> n for a size_t
RECURSIVE Value(_)
Value(digits) ==
    IF digits = <<>> THEN 0
    ELSE 10 * Value(SubSeq(digits, 1, Len(digits) - 1)) + digits[Len(digits)]

\* The digits of a mantissa without its trailing zeros, and the number of
\* zeros dropped
RECURSIVE Trimmed(_, _)
Trimmed(q, zeros) ==
    IF q # 0 /\ q % 10 = 0 THEN Trimmed(q \div 10, zeros + 1)
    ELSE [digits |-> Decimal(q), zeros |-> zeros]

\* out << w for a Base_t holding a whole number: all its digits if it has
\* no more than StreamPrecision of them, else the StreamPrecision leading
\* digits rounded to nearest (ties to even) with a decimal exponent; the
\* text is kept as sign, written digits and the power of ten that scales
\* them
format_weight(w) ==
    LET a    == IF w < 0 THEN -w ELSE w
        len  == Len(Decimal(a))
        cut  == Pow10(len - StreamPrecision)
        q    == a \div cut
        r    == a % cut
        up   == 2 * r > cut \/ (2 * r = cut /\ q % 2 = 1)
        t    == Trimmed(IF up THEN q + 1 ELSE q, 0)
    IN  IF len <= StreamPrecision
        THEN [neg |-> w < 0, digits |-> Decimal(a), exp |-> 0]
        ELSE [neg |-> w < 0, digits |-> t.digits,
              exp |-> len - StreamPrecision + t.zeros]

\* impl::lexical_cast<Base_t>
parse_weight(text) ==
    LET a == Value(text.digits) * Pow10(text.exp)
    IN  IF text.neg THEN -a ELSE a

\* out << n.act_fn(): "2x" for the functor of the serialisation test,
\* "logistic(x0,L,k)" for the standard logistic function (0, 1, 1)
act_fn_out(a) ==
    IF a = "logistic"
    THEN [name |-> "logistic",
          params |-> <<format_weight(0), format_weight(1), format_weight(1)>>]
    ELSE [name |-> "2x", params |-> <<>>]

\* impl::lexical_cast<Act_fn>: what operator >> of the functor throws
act_fn_in(a, literal) ==
    IF a = "logistic"
    THEN IF /\ literal.name = "logistic"
            /\ Len(literal.params) = 3
            /\ parse_weight(literal.params[1]) = 0
            /\ parse_weight(literal.params[2]) = 1
            /\ parse_weight(literal.params[3]) = 1
         THEN "none" ELSE "runtime_error"
    ELSE IF literal.name = "2x" THEN "none" ELSE "runtime_error"

Line(word) == [line |-> word]

\* The lines "Neuron .. NeuronEnd" of the neurons from slot p on
RECURSIVE serialise_neurons(_, _, _)
serialise_neurons(N, a, p) ==
    IF p >= Len(N.m_neurons) THEN <<>>
    ELSE (IF ~Occupied(N, p) THEN <<>>
          ELSE << [line |-> "Neuron", index |-> Decimal(At(N, p).index)],
                  [line |-> "type", type |-> At(N, p).type],
                  [line |-> "f", f |-> act_fn_out(a)],
                  Line("NeuronEnd") >>)
         \o serialise_neurons(N, a, p + 1)

\* The lines "Synapsis" of the dendrites of n from the k-th on
RECURSIVE serialise_dendrites(_, _, _)
serialise_dendrites(N, n, k) ==
    IF k > Len(n.dendrites) THEN <<>>
    ELSE << [line |-> "Synapsis",
             from |-> Decimal(At(N, n.dendrites[k].source).index),
             to |-> Decimal(n.index),
             weight |-> format_weight(n.dendrites[k].weight)] >>
         \o serialise_dendrites(N, n, k + 1)

RECURSIVE serialise_synapses(_, _)
serialise_synapses(N, p) ==
    IF p >= Len(N.m_neurons) THEN <<>>
    ELSE (IF ~Occupied(N, p) THEN <<>>
          ELSE serialise_dendrites(N, At(N, p), 1))
         \o serialise_synapses(N, p + 1)

\* std::ostream & serialise(out, network, indent = "")
serialise(N, a) ==
    <<Line("NNTopology")>> \o serialise_neurons(N, a, 0)
        \o serialise_synapses(N, 0) \o <<Line("NNTopologyEnd")>>

\* impl::getline: the i-th meaningful line, the empty line at the end
getline(text, i) == IF i <= Len(text) THEN text[i] ELSE Line("")

\* The loop "Synapses" of deserialise, line being the i-th line
RECURSIVE deserialise_synapses(_, _, _)
deserialise_synapses(N, text, i) ==
    LET line == getline(text, i)
        from_index == Value(line.from)
        to_index   == Value(line.to)
    IN  IF line.line # "Synapsis"
        THEN [network |-> N,
              err |-> IF line.line = "NNTopologyEnd" THEN "none"
                      ELSE "runtime_error"]
        ELSE IF ~Occupied(N, from_index) \/ ~Occupied(N, to_index)
        THEN [network |-> N, err |-> "range_error"]
        ELSE deserialise_synapses(
                 [N EXCEPT !.m_neurons[to_index + 1] =
                     <<set_dendrite(At(N, to_index), from_index,
                                    parse_weight(line.weight))>>],
                 text, i + 1)

\* The loop "Neurons" of deserialise, the next line being the i-th
RECURSIVE deserialise_neurons(_, _, _, _)
deserialise_neurons(N, a, text, i) ==
    IF getline(text, i).line # "Neuron"
    THEN deserialise_synapses(N, text, i)
    ELSE IF getline(text, i + 1).line # "type"
    THEN [network |-> N, err |-> "runtime_error"]
    ELSE IF getline(text, i + 1).type \notin {INPUT, INNER, OUTPUT}
    THEN [network |-> N, err |-> "runtime_error"]
    ELSE IF getline(text, i + 2).line # "f"
    THEN [network |-> N, err |-> "runtime_error"]
    ELSE IF act_fn_in(a, getline(text, i + 2).f) # "none"
    THEN [network |-> N, err |-> act_fn_in(a, getline(text, i + 2).f)]
    ELSE IF getline(text, i + 3).line # "NeuronEnd"
    THEN [network |-> N, err |-> "runtime_error"]
    ELSE deserialise_neurons(
             set_neuron(N, Value(getline(text, i).index),
                        getline(text, i + 1).type),
             a, text, i + 4)

\* std::istream & deserialise(in, network)
deserialise(N, a, text) ==
    IF getline(text, 1).line # "NNTopology"
    THEN [network |-> clear(N), err |-> "runtime_error"]
    ELSE deserialise_neurons(clear(N), a, text, 2)

\* The weights given to dendrites: small ones of either sign, one of
\* StreamPrecision digits and one of one digit more
IOWeights == {1, -2, 999999, 1234567}

\* Most dendrites a network that is written out holds
IODendrites == 1

\* The functors networks are instantiated with
IOActFns == {"2x", "logistic"}

\* What the last stream operation was seen to do: the text written or
\* read, the network the text was written from, and what was thrown
IOSeen(op, text, from, err) ==
    [op |-> op, text |-> text, from |-> from, err |-> err]

\* nn(): here with m_size 0
InitIO ==
    /\ TopoIdle
    /\ act \in IOActFns
    /\ kind = "none"
    /\ m_results = <<>>
    /\ m_reset = TRUE
    /\ ev = NoEval
    /\ m_features = 0
    /\ m_fixes = <<>>
    /\ m_slots = <<>>
    /\ crit = NoCrit
    /\ tr = IOSeen("new", <<>>, Net, "none")
    /\ FixIdle

Installed(N, op) ==
    /\ m_size' = N.m_size
    /\ m_neurons' = N.m_neurons
    /\ m_inputs' = N.m_inputs
    /\ m_outputs' = N.m_outputs
    /\ topo_op' = op

\* add_neuron, remove_neuron and set_dendrite by the owner of the network,
\* before it is first written
IOAddNeuron ==
    /\ tr.op = "new"
    /\ Len(m_neurons) < MaxSlots
    /\ \E t \in Types : Installed(add_neuron(Net, t), "add_neuron")
    /\ UNCHANGED <<fixVars, evalVars, trainVars>>

IORemoveNeuron ==
    /\ tr.op = "new"
    /\ \E p \in LiveSlots(Net) :
          Installed(remove_neuron(Net, p), "remove_neuron")
    /\ UNCHANGED <<fixVars, evalVars, trainVars>>

IOSetDendrite ==
    /\ tr.op = "new"
    /\ \E p \in LiveSlots(Net), q \in LiveSlots(Net), w \in IOWeights :
          /\ \/ DendriteCnt(Net) < IODendrites
             \/ get_dendrite_iter(At(Net, p), q) <= Len(At(Net, p).dendrites)
          /\ Installed([Net EXCEPT !.m_neurons[p + 1] =
                           <<set_dendrite(At(Net, p), q, w)>>],
                       "set_dendrite")
    /\ UNCHANGED <<fixVars, evalVars, trainVars>>

\* out << network
Serialise ==
    /\ tr' = IOSeen("serialise", serialise(Net, act), Net, "none")
    /\ topo_op' = "serialise"
    /\ UNCHANGED <<fixVars, evalVars, m_size, m_neurons, m_inputs, m_outputs,
                   m_features, m_fixes, m_slots, crit>>

\* in >> network, on the text written last
Deserialise ==
    /\ tr.op \in {"serialise", "deserialise"}
    /\ \E R \in {deserialise(Net, act, tr.text)} :
          /\ Installed(R.network, "deserialise")
          /\ tr' = IOSeen("deserialise", tr.text, tr.from, R.err)
    /\ UNCHANGED <<fixVars, evalVars, m_features, m_fixes, m_slots, crit>>

NextIO ==
    \/ IOAddNeuron
    \/ IORemoveNeuron
    \/ IOSetDendrite
    \/ Serialise
    \/ Deserialise

SpecIO == InitIO /\ [][NextIO]_vars

\* The (source, consumer, weight) edges of a network
Edges(N) ==
    UNION {{<<At(N, p).dendrites[k].source, p, At(N, p).dendrites[k].weight>> :
               k \in 1..Len(At(N, p).dendrites)} : p \in LiveSlots(N)}

\* Same occupied indices, same role at each
SameNeurons(N1, N2) ==
    /\ LiveSlots(N1) = LiveSlots(N2)
    /\ \A p \in LiveSlots(N1) :
          /\ At(N1, p).index = At(N2, p).index
          /\ At(N1, p).type = At(N2, p).type

\* The network was read back from the text written from tr.from
ReadBack == topo_op = "deserialise" /\ tr.op = "deserialise"

\* C26: the network read back from the serialisation of a network N has
\* the occupied indices of N, the role and the activation literal of N at
\* each, and the (source, consumer, weight) edges of N, and its
\* serialisation is the text it was read from.
C26_RoundTrip ==
    ReadBack =>
        /\ tr.err = "none"
        /\ SameNeurons(Net, tr.from)
        /\ Edges(Net) = Edges(tr.from)
        /\ serialise(Net, act) = tr.text

\* Every weight of the network has at most StreamPrecision digits
Writable(N) ==
    \A e \in Edges(N) :
        e[3] < Pow10(StreamPrecision) /\ e[3] > -Pow10(StreamPrecision)

\* The same, for the networks whose weights have no more digits than the
\* stream writes; for the others, everything but the weights
C26_UpToPrecision ==
    ReadBack =>
        /\ tr.err = "none"
        /\ SameNeurons(Net, tr.from)
        /\ {<<e[1], e[2]>> : e \in Edges(Net)}
               = {<<e[1], e[2]>> : e \in Edges(tr.from)}
        /\ Writable(tr.from) => Edges(Net) = Edges(tr.from)
        /\ serialise(Net, act) = tr.text

\* A network with a vacant slot and a dendrite was written and read back
C26_VacantRead ==
    /\ ReadBack
    /\ \E p \in 0..(Len(m_neurons) - 2) : ~Occupied(Net, p)
    /\ Edges(tr.from) # {}
    /\ Writable(tr.from)

-----------------------------------------------------------------------------
(* The update step and the backward pass of a training call                *)

\* The delta and the phi_net the i-th slot of the list holds for the neuron
\* in the place p of the network
Delta(i, p) == m_slots[i].bw.results[At(tr.before, p).index + 1].val.delta

PhiNet(i, p) == m_slots[i].fw.results[At(tr.before, p).index + 1].val.phi_net

\* The rate the update calls of the last call were given
Alpha4Sample ==
    IF tr.op = "train_one" THEN Rate(tr.ret.num, tr.ret.den)
    ELSE Rate(tr.ret.num, tr.ret.den) \div Len(tr.tset)

\* The places of the neurons and, of a neuron, of its dendrites
Places == LiveSlots(tr.before)

DendritesOf(p) == 1..Len(At(tr.before, p).dendrites)

\* The last call made one update call and returned
OneUpdate ==
    /\ Training
    /\ tr.err = "none"
    /\ Cardinality(Stages("update")) = 1

\* C29: a call of update(alpha, slot) subtracts alpha * delta(n) *
\* phi_net(source(d)) from the weight of every dendrite d of every neuron n
\* that is there, delta and phi_net being the values the slot holds from
\* the compute call before; no weight the update has changed already has a
\* part in a later change.
C29_UpdateRule ==
    OneUpdate =>
        \A p \in Places : \A k \in DendritesOf(p) :
            At(Net, p).dendrites[k].weight =
                At(tr.before, p).dendrites[k].weight
                - Alpha4Sample * Delta(Updated[1], p)
                  * PhiNet(Updated[1], At(tr.before, p).dendrites[k].source)

\* An update call changed the weights of two dendrites, one of them leaving
\* the neuron the other one enters
C29_Witness ==
    /\ OneUpdate
    /\ \E p \in Places : \E k \in DendritesOf(p) :
          LET q == At(tr.before, p).dendrites[k].source
          IN  /\ At(Net, p).dendrites[k].weight
                     # At(tr.before, p).dendrites[k].weight
              /\ q \in Places
              /\ \E l \in DendritesOf(q) :
                     At(Net, q).dendrites[l].weight
                         # At(tr.before, q).dendrites[l].weight

\* The sum of delta_i(n) * phi_i(q) over the samples of the set from the
\* i-th on, n being the neuron in the place p and q the place of a source
RECURSIVE Gradient(_, _, _)
Gradient(i, p, q) ==
    IF i > Len(tr.tset) THEN 0
    ELSE Delta(i, p) * PhiNet(i, q) + Gradient(i + 1, p, q)

\* The slots of the trainer in the opposite order
Backwards == SeqOf([i \in 1..Len(m_slots) |-> m_slots[Len(m_slots) + 1 - i]],
                   Len(m_slots))

\* The last call was a batch call that returned, with a rate that is not 0
BatchUpdated ==
    /\ tr.op = "train_batch"
    /\ tr.err = "none"
    /\ Rate(tr.ret.num, tr.ret.den) # 0

\* C28: in a batch call with a rate alpha that is not 0, each dendrite d of
\* each neuron n changes by -(alpha / |set|) times the sum over the samples
\* i of delta_i(n) * phi_i(source(d)), the values sample i's compute left in
\* its slot, and applying the slots in the opposite order gives the same
\* weights.
C28_BatchSum ==
    BatchUpdated =>
        /\ \A p \in Places : \A k \in DendritesOf(p) :
               At(Net, p).dendrites[k].weight =
                   At(tr.before, p).dendrites[k].weight
                   - Alpha4Sample
                     * Gradient(1, p, At(tr.before, p).dendrites[k].source)
        /\ batch_update(tr.before, Alpha4Sample, Backwards, 1, <<>>).network
               = Net

\* The same, for the batch calls that find no more slots than samples
C28_NoStaleSlots == tr.slots <= Len(tr.tset) => C28_BatchSum

\* A batch of two samples that found no more than two slots changed a
\* weight, and both samples have a part in the change
C28_TwoSamples ==
    /\ BatchUpdated
    /\ Len(tr.tset) = 2
    /\ tr.slots <= 2
    /\ \E p \in Places : \E k \in DendritesOf(p) :
          LET q == At(tr.before, p).dendrites[k].source
          IN  /\ Delta(1, p) * PhiNet(1, q) # 0
              /\ Delta(2, p) * PhiNet(2, q) # 0
              /\ Delta(1, p) * PhiNet(1, q) # Delta(2, p) * PhiNet(2, q)

\* The neuron in the place p is one of the pins of the trainer
IsPinned(p) ==
    \E j \in 1..Len(m_fixes) : m_fixes[j].first = At(tr.before, p).index

\* The neurons the sweep from S calls fx for, along at most k dendrites: fx
\* goes on to the consumers of a neuron unless it finds its cell fixed, as
\* it does for an output neuron and for a pin
RECURSIVE Swept(_, _)
Swept(S, k) ==
    IF k = 0 THEN S
    ELSE Swept(S \cup {c \in Places :
                          \E q \in Sources(tr.before, c) \cap S :
                              /\ At(tr.before, q).type # OUTPUT
                              /\ ~IsPinned(q)},
               k - 1)

\* The neurons reached by the sweep of the backward driver
Reached ==
    Swept({tr.before.m_inputs[j] : j \in 1..Len(tr.before.m_inputs)},
          Len(tr.before.m_neurons))

\* The sum of delta(c) * weight over the dendrites whose source is in the
\* place q, c being the neuron the dendrite belongs to, with the deltas of
\* the i-th slot and the weights the call found
Propagated(i, q) ==
    LET All  == UNION {{[n |-> c, k |-> k] : k \in DendritesOf(c)} :
                          c \in Places}
        Cons == {d \in All : At(tr.before, d.n).dendrites[d.k].source = q}
        Term(d) == Delta(i, d.n) * At(tr.before, d.n).dendrites[d.k].weight
        sum[Rest \in SUBSET Cons] ==
            IF Rest = {} THEN 0
            ELSE LET one == CHOOSE x \in Rest : TRUE
                 IN  Term(one) + sum[Rest \ {one}]
    IN  sum[Cons]

\* The derivative of the activation at the net of the neuron in the place p
\* in the forward pass of the i-th slot
DNet(i, p) ==
    act_fn_d(act, m_slots[i].fw.results[At(tr.before, p).index + 1].val.net)

\* The place of the j-th output neuron
OutputAt(j) == tr.before.m_outputs[j]

\* The compute calls of the last call whose backward pass has run
BackwardRan ==
    {i \in 1..Len(tr.computed) :
        /\ Training
        /\ Acyclic(tr.before)
        /\ tr.computed[i].err = "none"}

\* The deltas of the i-th slot are those of the rule, for the output
\* neurons in Out and the other neurons in In
DeltaRule(i, Out, In) ==
    /\ \A j \in 1..Len(tr.before.m_outputs) :
           OutputAt(j) \in Out =>
               Delta(i, OutputAt(j)) =
                   (tr.computed[i].actual[j] - tr.computed[i].output[j])
                   * DNet(i, OutputAt(j))
    /\ \A q \in In :
           At(tr.before, q).type # OUTPUT =>
               Delta(i, q) = Propagated(i, q) * DNet(i, q)

\* C30 as stated: after the backward driver has run on an acyclic network,
\* the delta of each output neuron i is error_i * act_fn.d(net_i) and the
\* delta of each other neuron n reached by the sweep is the sum over the
\* dendrites whose source is n of delta(consumer) * weight, times
\* act_fn.d(net_n).
C30_AllNeurons ==
    \A i \in BackwardRan : DeltaRule(i, Places, Reached)

\* C30: the same for the neurons that are not pins of the trainer; the
\* delta of a pin is 0.
C30_DeltaRule ==
    \A i \in BackwardRan :
        /\ DeltaRule(i, {p \in Places : ~IsPinned(p)},
                     {p \in Reached : ~IsPinned(p)})
        /\ \A p \in Places : IsPinned(p) => Delta(i, p) = 0

\* The backward pass ran over a network with a pin and gave a neuron that
\* is neither an output nor a pin a delta that is not 0, from a dendrite
\* whose weight is not 1
C30_Witness ==
    \E i \in BackwardRan : \E q \in Reached, p \in Places :
        /\ IsPinned(p)
        /\ ~IsPinned(q)
        /\ At(tr.before, q).type # OUTPUT
        /\ Delta(i, q) # 0
        /\ \E c \in Places : \E k \in DendritesOf(c) :
              /\ At(tr.before, c).dendrites[k].source = q
              /\ At(tr.before, c).dendrites[k].weight # 1

-----------------------------------------------------------------------------
(* The const fx of a computation                                           *)

\* C31: fx(index) of a const computation returns the stored value when the
\* cell is fixed and throws logic_error when it is not; either way no f is
\* invoked and no cell and not the reset flag changes.
C31_ConstFx ==
    [][ev'.op = "fx_const" =>
           /\ m_results' = m_results
           /\ m_reset' = m_reset
           /\ ev'.invoked = {}
           /\ ev'.calls = ev.calls
           /\ IF m_results[ev'.arg[1] + 1].fix # UNFIXED
              THEN /\ ev'.err = "none"
                   /\ ev'.output = <<m_results[ev'.arg[1] + 1].val>>
              ELSE /\ ev'.err = "logic_error"
                   /\ ev'.output = <<>>]_vars

\* The const fx threw for an unfixed cell of a grid that holds computed
\* values
C31_Witness ==
    /\ ev.op = "fx_const"
    /\ ev.err = "logic_error"
    /\ ~m_reset
    /\ m_results[ev.arg[1] + 1].fix = UNFIXED
    /\ \E i \in 1..Len(m_results) : m_results[i].fix = SOFTFIX

\* The const fx returned a value an evaluation had computed
C31_Returned ==
    /\ ev.op = "fx_const"
    /\ ev.err = "none"
    /\ ev.hit = SOFTFIX
    /\ ev.output = <<m_results[ev.arg[1] + 1].val>>

\* C37: fx(i) for an index within the grid whose slot of the network is
\* vacant, the cell not being a pin, throws range_error on every call and
\* leaves the cell unfixed.
C37_VacantFails ==
    (/\ ev.op = "fx"
     /\ ~Occupied(Net, ev.arg[1])
     /\ ev.hit # HARDFIX) =>
        /\ ev.err = "range_error"
        /\ m_results[ev.arg[1] + 1].fix = UNFIXED

\* The same for the first fx(i) after a reset or the construction, and only
\* for what it throws
C37_FirstCallFails ==
    (/\ ev.op = "fx"
     /\ ~Occupied(Net, ev.arg[1])
     /\ ev.hit = UNFIXED) =>
        ev.err = "range_error"

\* fx(i) for a vacant slot returned a value
C37_Returned ==
    /\ ev.op = "fx"
    /\ ~Occupied(Net, ev.arg[1])
    /\ ev.hit = SOFTFIX
    /\ ev.err = "none"
    /\ ev.output # <<>>

-----------------------------------------------------------------------------
(* prune, minimise and the dendrites of a neuron                           *)

\* C32: after prune() no neuron has a dendrite whose weight is 0, and the
\* dendrites whose weight is not 0 are all there, with their weights and in
\* the order they had.
C32_Pruned ==
    [][topo_op' = "prune" =>
           /\ Len(m_neurons') = Len(m_neurons)
           /\ \A p \in LiveSlots(Net) :
                  /\ m_neurons'[p + 1] # <<>>
                  /\ m_neurons'[p + 1][1].dendrites
                         = SelectSeq(At(Net, p).dendrites, NonZero)]_vars

\* After prune() a neuron has a dendrite whose weight is 0
C32_ZeroLeft ==
    /\ topo_op = "prune"
    /\ \E p \in LiveSlots(Net) : \E k \in 1..Len(At(Net, p).dendrites) :
          At(Net, p).dendrites[k].weight = 0

\* The neurons of type t in the network N
OfType(N, t) == {p \in LiveSlots(N) : At(N, p).type = t}

\* What minimise() leaves: no INNER neuron without dendrites, as many INPUT
\* and OUTPUT neurons as there were, no vacant slot, slot_cnt() = size(),
\* and the stored indices 0 .. size() - 1 in the order of the slots
MinimiseLeft ==
    /\ \A i \in 1..Len(m_neurons') :
           /\ m_neurons'[i] # <<>>
           /\ m_neurons'[i][1].index = i - 1
           /\ ~(/\ m_neurons'[i][1].type = INNER
                /\ m_neurons'[i][1].dendrites = <<>>)
    /\ Len(m_neurons') = m_size'
    /\ Cardinality({i \in 1..Len(m_neurons') :
                       m_neurons'[i] # <<>> /\ m_neurons'[i][1].type = INPUT})
           = Cardinality(OfType(Net, INPUT))
    /\ Cardinality({i \in 1..Len(m_neurons') :
                       m_neurons'[i] # <<>> /\ m_neurons'[i][1].type = OUTPUT})
           = Cardinality(OfType(Net, OUTPUT))

\* C33: minimise() returns on every network, and then no INNER neuron has
\* zero dendrites, every INPUT and OUTPUT neuron is still there, no slot is
\* vacant (slot_cnt() = size()) and the stored indices are 0 .. size() - 1.
C33_Minimised ==
    [][topo_op' \in {"minimise", "minimise_compacted"} => MinimiseLeft]_vars

\* The same for the networks whose m_size is the number of their neurons
C33_SizeKnown ==
    [][(/\ topo_op' \in {"minimise", "minimise_compacted"}
        /\ m_size = Cardinality(LiveSlots(Net))) => MinimiseLeft]_vars

\* minimise() removed a neuron and closed the gap, in a network whose
\* m_size is the number of its neurons
C33_Compacted ==
    /\ topo_op = "minimise_compacted"
    /\ m_size = Cardinality(LiveSlots(Net))
    /\ m_neurons # <<>>

\* Most dendrites the neurons hold together while their dendrites are set
\* and unset
MaxSynapses == 2

\* A network of MaxSlots neurons, each added by add_neuron
RECURSIVE Grown(_, _)
Grown(N, n) == IF n = 0 THEN N ELSE add_neuron(Grown(N, n - 1), INNER)

InitDend ==
    /\ \E junk \in {0, HugeSize} :
          \E N \in {Grown(NN(junk, <<>>, <<>>, <<>>), MaxSlots)} :
              /\ m_size = N.m_size
              /\ m_neurons = N.m_neurons
              /\ m_inputs = N.m_inputs
              /\ m_outputs = N.m_outputs
    /\ topo_op = "none"
    /\ FixIdle
    /\ EvalIdle
    /\ TrainIdle

\* neuron::set_dendrite on a neuron of the network
DendSet ==
    \E p \in LiveSlots(Net), q \in LiveSlots(Net), w \in Weights :
        /\ \/ DendriteCnt(Net) < MaxSynapses
           \/ get_dendrite_iter(At(Net, p), q) <= Len(At(Net, p).dendrites)
        /\ Install([Net EXCEPT !.m_neurons[p + 1] =
                        <<set_dendrite(At(Net, p), q, w)>>],
                   IF \E k \in 1..Len(At(Net, p).dendrites) :
                          At(Net, p).dendrites[k].source = q
                   THEN "set_dendrite_update" ELSE "set_dendrite")

\* neuron::unset_dendrite on a neuron of the network
DendUnset ==
    \E p \in LiveSlots(Net), q \in LiveSlots(Net) :
        Install([Net EXCEPT !.m_neurons[p + 1] =
                     <<unset_dendrite(At(Net, p), q)>>], "unset_dendrite")

\* neuron::minimise_dendrites on a neuron of the network
DendMinimise ==
    \E p \in LiveSlots(Net) :
        Install([Net EXCEPT !.m_neurons[p + 1] =
                     <<minimise_dendrites(At(Net, p))>>],
                "minimise_dendrites")

NextDend ==
    \/ DendSet
    \/ DendUnset
    \/ DendMinimise

SpecDend == InitDend /\ [][NextDend]_vars

\* The sources of the dendrites d, in their order
SourcesOf(d) == SeqOf([k \in 1..Len(d) |-> d[k].source], Len(d))

\* No two dendrites of a neuron of N have the same source
OnePerSource(N) ==
    \A p \in LiveSlots(N) :
        \A j, k \in 1..Len(At(N, p).dendrites) :
            At(N, p).dendrites[j].source = At(N, p).dendrites[k].source
                => j = k

\* What a set_dendrite makes of the dendrites d of a neuron: e with the
\* same sources in the same places and at most one weight changed, or d
\* with one dendrite of a new source at its end
SetLeft(d, e) ==
    \/ /\ SourcesOf(e) = SourcesOf(d)
       /\ Cardinality({k \in 1..Len(d) : e[k].weight # d[k].weight}) <= 1
    \/ /\ Len(e) = Len(d) + 1
       /\ SubSeq(e, 1, Len(d)) = d
       /\ \A k \in 1..Len(d) : d[k].source # e[Len(e)].source

\* C35: after any sequence of set_dendrite and unset_dendrite a neuron has
\* at most one dendrite per source; set_dendrite for a source that has a
\* dendrite changes only the weight of that dendrite and leaves the number
\* and the order of the dendrites as they were, and set_dendrite for a new
\* source puts the dendrite at the end.
C35_OnePerSource ==
    /\ [](OnePerSource(Net))
    /\ [][topo_op' \in {"set_dendrite", "set_dendrite_update"} =>
              /\ Len(m_neurons') = Len(m_neurons)
              /\ topo_op' = "set_dendrite_update"
                     => DendriteCnt(Net') = DendriteCnt(Net)
              /\ \A p \in LiveSlots(Net) :
                     /\ m_neurons'[p + 1] # <<>>
                     /\ SetLeft(At(Net, p).dendrites,
                                m_neurons'[p + 1][1].dendrites)
              /\ Cardinality({p \in LiveSlots(Net) :
                                 m_neurons'[p + 1] # m_neurons[p + 1]}) <= 1]_vars

\* A set_dendrite for a source that had a dendrite left a neuron with two
\* dendrites of different weights
C35_Witness ==
    /\ topo_op = "set_dendrite_update"
    /\ \E p \in LiveSlots(Net) :
          /\ Len(At(Net, p).dendrites) = 2
          /\ At(Net, p).dendrites[1].weight # At(Net, p).dendrites[2].weight

\* How many neurons of the type of the neuron in the place p come before it
\* in the slots of N: the neurons of a type keep their order through
\* remove_neuron and reindex, so this tells a neuron from the others
RankOf(N, p) == Cardinality({q \in OfType(N, At(N, p).type) : q < p})

\* The neurons the list names, each by its rank
RanksOf(N, list) == SeqOf([i \in 1..Len(list) |-> RankOf(N, list[i])],
                          Len(list))

\* What a forward evaluator constructed over N, without pins, returns or
\* throws for input
OutputOf(N, a, input) ==
    LET r == forward_apply(Evaluator("forward", a, N),
                           MachineOf(computation(N, DefaultFx)), input)
    IN  [output |-> r.output, err |-> r.m.err]

\* The network a step leaves
NetAfter == NN(m_size', m_neurons', m_inputs', m_outputs')

\* minimise() keeps the place of every neuron in the inputs and the outputs
\* list and the output of every forward evaluation
MinimiseKeeps ==
    /\ Len(m_inputs') = Len(m_inputs)
    /\ Len(m_outputs') = Len(m_outputs)
    /\ RanksOf(NetAfter, m_inputs') = RanksOf(Net, m_inputs)
    /\ RanksOf(NetAfter, m_outputs') = RanksOf(Net, m_outputs)
    /\ \A a \in ActFns : \A input \in InputVectors(Len(m_inputs)) :
           OutputOf(NetAfter, a, input) = OutputOf(Net, a, input)

\* C34: with an activation for which act_fn(0) = 0 and no pins, minimise()
\* keeps the interface and the function of the network: the i-th input
\* scalar feeds the same input neuron, the i-th output is read from the same
\* output neuron, and every input vector gives the same forward output.
C34_FunctionKept ==
    [][topo_op' \in {"minimise", "minimise_compacted"} => MinimiseKeeps]_vars

\* The list names its neurons in the order of their slots
InSlotOrder(list) == \A i, j \in 1..Len(list) : i < j => list[i] < list[j]

\* The same for the networks whose inputs and outputs lists are in the order
\* of the slots
C34_SlotOrder ==
    [][(/\ topo_op' \in {"minimise", "minimise_compacted"}
        /\ InSlotOrder(m_inputs)
        /\ InSlotOrder(m_outputs)) => MinimiseKeeps]_vars

\* minimise() removed a neuron and closed the gap in a network that has an
\* interface and a dendrite
C34_Moved ==
    /\ topo_op = "minimise_compacted"
    /\ Len(m_inputs) + Len(m_outputs) > 0
    /\ DendriteCnt(Net) > 0

-----------------------------------------------------------------------------
(* The convergence counter of the adaptive criterion                       *)

\* C39: an adaptive criterion constructed with cmin < 0 < cmax has, after
\* every call, cmin < counter < cmax, and a call with err2 <= sigma changes
\* neither the counter, nor alpha, nor last-err2.
C39_CounterWithin ==
    (/\ crit.kind = "adaptive"
     /\ crit.m_conv_cmin < 0
     /\ crit.m_conv_cmax > 0) =>
        /\ crit.m_conv_cnt > crit.m_conv_cmin
        /\ crit.m_conv_cnt < crit.m_conv_cmax
        /\ (tr.op = "call" /\ ~AboveSigma) =>
               /\ crit.m_conv_cnt = tr.before.m_conv_cnt
               /\ crit.m_alpha = tr.before.m_alpha
               /\ crit.m_last_en2 = tr.before.m_last_en2

\* An adaptive criterion whose counter is not 0 and whose last-err2 is set
\* was called on an error norm that is not 0 and not above sigma
C39_Witness ==
    /\ crit.kind = "adaptive"
    /\ crit.m_conv_cmin < 0
    /\ crit.m_conv_cmax > 0
    /\ tr.op = "call"
    /\ ~AboveSigma
    /\ tr.en2.num > 0
    /\ tr.before.m_conv_cnt # 0
    /\ tr.before.m_last_en2.num > 0
    /\ crit.m_conv_cnt = tr.before.m_conv_cnt

-----------------------------------------------------------------------------
(* The cells update reads                                                  *)

\* C36: once a training call has entered its update step, the step
\* completes: every cell update reads was fixed by the compute before, so
\* update throws nothing, whatever the topology of the network.
C36_UpdateCompletes ==
    (Training /\ Stages("update") # {}) => tr.err = "none"

\* The same for the networks all of whose neurons that are not outputs and
\* not pins are reached by the sweep of the backward pass
C36_AllReached ==
    (\A p \in Places : At(tr.before, p).type = OUTPUT \/ IsPinned(p)
                           \/ p \in Reached)
        => C36_UpdateCompletes

\* An update threw after it had changed a weight
C36_PartialUpdate ==
    /\ Training
    /\ Stages("update") # {}
    /\ tr.err = "logic_error"
    /\ m_neurons # tr.before.m_neurons

-----------------------------------------------------------------------------
(* The output neurons in the backward pass                                 *)

\* A neuron of the network the call found is the source of a dendrite and
\* an output
OutputFeeds ==
    \E p \in Places : \E k \in DendritesOf(p) :
        At(tr.before, At(tr.before, p).dendrites[k].source).type = OUTPUT

\* C38: in the backward pass of every training call f is invoked for no
\* OUTPUT neuron, also when an output neuron is the source of dendrites: the
\* deltas of the outputs are fixed before the sweep from the inputs starts.
C38_NoOutputSwept ==
    Training =>
        \A i \in 1..Len(tr.computed) : \A n \in tr.computed[i].swept :
            \A p \in Places :
                At(tr.before, p).index = n => At(tr.before, p).type # OUTPUT

\* The backward pass of a call ran over a network in which an output neuron
\* is the source of a dendrite, and invoked f for a neuron
C38_Witness ==
    /\ Training
    /\ OutputFeeds
    /\ \E i \in 1..Len(tr.computed) :
          /\ tr.computed[i].err = "none"
          /\ tr.computed[i].swept # {}

-----------------------------------------------------------------------------
(* What evaluation and training leave of the network                       *)

\* The structure of a network: its occupied slots, what its lists of inputs
\* and outputs hold and, for each neuron, its index, its role and the
\* sources of its dendrites in their order
Structure(N) ==
    [slots |-> LiveSlots(N), inputs |-> N.m_inputs, outputs |-> N.m_outputs,
     neurons |->
        [p \in LiveSlots(N) |->
            [index |-> At(N, p).index, type |-> At(N, p).type,
             sources |-> [k \in 1..Len(At(N, p).dendrites) |->
                            At(N, p).dendrites[k].source]]]]

\* The weights of a network, dendrite by dendrite
WeightsOf(N) ==
    [p \in LiveSlots(N) |->
        [k \in 1..Len(At(N, p).dendrites) |-> At(N, p).dendrites[k].weight]]

\* The step is a training call in which criterion(error) returned 0
CriterionGaveZero ==
    /\ tr' # tr
    /\ ReachedCriterion(tr')
    /\ criterion_call(tr'.criterion, tr'.ret.num, tr'.ret.den).ret = 0

\* C40: no forward evaluation and no training call changes the structure
\* of the network (occupied slots, stored indices, roles, the lists of
\* inputs and outputs, the sequence of dendrite sources of each neuron); a
\* forward evaluation changes no weight, and neither does a training call
\* whose criterion returns 0.
C40_StructureKept ==
    [][/\ Structure(Net') = Structure(Net)
       /\ tr' = tr => WeightsOf(Net') = WeightsOf(Net)
       /\ CriterionGaveZero => WeightsOf(Net') = WeightsOf(Net)]_vars

\* A training call returned having changed a weight of the network
C40_Witness ==
    /\ Training
    /\ tr.err = "none"
    /\ WeightsOf(Net) # WeightsOf(tr.before)

\* A training call came to an error above zero and its criterion returned 0
C40_ZeroRate ==
    /\ Training
    /\ ReachedCriterion(tr)
    /\ tr.ret.num > 0
    /\ criterion_call(tr.criterion, tr.ret.num, tr.ret.den).ret = 0
    /\ WeightsOf(Net) = WeightsOf(tr.before)

====
